---------------------------- MODULE Spec2Model ----------------------------
(***************************************************************************)
(* Cache / consistency layer of the client-firm application:               *)
(*   - ClientHandler   (AVL tree of clients + employee -> clients index)   *)
(*   - EmployeeHandler (lazy caches of employees and password hashes)      *)
(*   - Transaction     (scoped guard: begin on new, rollback on drop       *)
(*                      unless commit succeeded)                           *)
(*   - Menu            (run loop, display, change-service and              *)
(*                      pairing-reassignment workflows)                    *)
(*   - login_handler / Authenticator, initial_employee_setup               *)
(* Every handler write operation is modelled statement by statement; each  *)
(* call into the remote store is one step whose outcome (Ok / Err) is      *)
(* chosen nondeterministically.  A read operation is one step.             *)
(* Specifications: Spec (write protocol), SpecIndex (client operations),   *)
(* SpecReads (reads between employee writes), SpecNew (construction of     *)
(* the ClientHandler), SpecPairing (Menu workflow), SpecTree (the AVL tree *)
(* under insert / remove / find), SpecInserts (the tree under inserts),    *)
(* SpecService (Menu change-service workflow), SpecCache (EmployeeHandler  *)
(* with every commit succeeding), SpecLogin (login_handler), SpecRun       *)
(* (Menu::run), SpecSetup (initial_employee_setup).                        *)
(***************************************************************************)
EXTENDS Integers, Sequences, FiniteSets, TLC

(***************************************************************************)
(* Bounds of the model                                                     *)
(***************************************************************************)
\* client ids are 0 (placeholder) .. MaxClientId
MaxClientId == 1
\* ids used as "assigned employee" of a client are 1 .. MaxGroupKey
MaxGroupKey == 2
\* ids of the employee table are 1 .. MaxEmployeeId
MaxEmployeeId == 1
\* number of handler operations started in one run
MaxOps == 2
\* number of ClientHandler operations started in one run of SpecIndex
MaxClientOps == 3
\* number of handler operations started in one run of SpecReads
MaxReadOps == 3
\* number of handler calls the Menu makes in one run of SpecPairing
MaxMenuCalls == 4
\* the store a ClientHandler is constructed over in SpecNew holds clients
\* with ids among 1 .. MaxStoredClients
MaxStoredClients == 3
\* keys of the records a tree of SpecTree is called with are 1 .. MaxTreeKey
MaxTreeKey == 5
\* keys of the records inserted into a tree of SpecInserts are
\* 1 .. MaxInsertKey
MaxInsertKey == 6
\* number of handler calls made in one run of SpecService
MaxServiceCalls == 3
\* the store of SpecService holds clients with ids among
\* 1 .. MaxServiceClients
MaxServiceClients == 2

ClientIds == 0..MaxClientId
GroupKeys == 1..MaxGroupKey
EmployeeIds == 1..MaxEmployeeId
\* ClientServiceChoice::Brokerage = 1
Services == {1}
ClientNames == {"Ana"}
EmployeeNames == {"Eve"}
Hashes == {"h1", "h2"}

(***************************************************************************)
(* Records                                                                 *)
(***************************************************************************)
Client ==
  [client_id : ClientIds, client_name : ClientNames,
   client_service : Services, asn_employee_id : GroupKeys]

Employee ==
  [employee_id : EmployeeIds, employee_name : EmployeeNames,
   hashed_password : Hashes]

get_key(rec) == rec.client_id

\* the empty map (HashMap::new())
EmptyMap == [x \in {} |-> 0]

\* HashMap::insert
MapInsert(m, k, v) == [x \in (DOMAIN m) \cup {k} |-> IF x = k THEN v ELSE m[x]]

\* HashMap::remove
MapRemove(m, k) == [x \in (DOMAIN m) \ {k} |-> m[x]]

(***************************************************************************)
(* AVLTree<T>: height-balanced binary search tree keyed by get_key         *)
(***************************************************************************)
Nil == [nil |-> TRUE]

Node(rec, l, r, h) == [nil |-> FALSE, rec |-> rec, left |-> l, right |-> r, height |-> h]

Max(a, b) == IF a >= b THEN a ELSE b

Height(t) == IF t.nil THEN 0 ELSE t.height

\* a node over two subtrees, with its cached height recomputed
MkNode(rec, l, r) == Node(rec, l, r, 1 + Max(Height(l), Height(r)))

BalanceFactor(t) == IF t.nil THEN 0 ELSE Height(t.left) - Height(t.right)

RotateRight(t) ==
  LET l == t.left
  IN  MkNode(l.rec, l.left, MkNode(t.rec, l.right, t.right))

\* a left rotation that loses the inner subtree of the right child
RotateLeftDropsInner(t) ==
  LET r == t.right
  IN  MkNode(r.rec, MkNode(t.rec, t.left, Nil), r.right)

RotateLeft(t) ==
  LET r == t.right
  IN  MkNode(r.rec, MkNode(t.rec, t.left, r.left), r.right)

\* a rebalancing that knows the single rotations only
RebalanceSingleRotation(t) ==
  IF t.nil THEN t
  ELSE IF BalanceFactor(t) > 1 THEN RotateRight(t)
  ELSE IF BalanceFactor(t) < -1 THEN RotateLeft(t)
  ELSE t

\* restores |balance factor| <= 1 at the root of t, whose subtrees are balanced
Rebalance(t) ==
  IF t.nil THEN t
  ELSE IF BalanceFactor(t) > 1
       THEN IF BalanceFactor(t.left) >= 0
            THEN RotateRight(t)
            ELSE RotateRight(MkNode(t.rec, RotateLeft(t.left), t.right))
  ELSE IF BalanceFactor(t) < -1
       THEN IF BalanceFactor(t.right) <= 0
            THEN RotateLeft(t)
            ELSE RotateLeft(MkNode(t.rec, t.left, RotateRight(t.right)))
  ELSE t

RECURSIVE Keys(_)
Keys(t) == IF t.nil THEN {} ELSE Keys(t.left) \cup {get_key(t.rec)} \cup Keys(t.right)

RECURSIVE Records(_)
Records(t) == IF t.nil THEN {} ELSE Records(t.left) \cup {t.rec} \cup Records(t.right)

RECURSIVE InOrder(_)
InOrder(t) ==
  IF t.nil THEN <<>> ELSE InOrder(t.left) \o <<get_key(t.rec)>> \o InOrder(t.right)

RECURSIVE Lookup(_, _)
Lookup(t, k) ==
  IF t.nil THEN Nil
  ELSE IF k < get_key(t.rec) THEN Lookup(t.left, k)
  ELSE IF k > get_key(t.rec) THEN Lookup(t.right, k)
  ELSE t

\* an insertion that updates the heights on the way back but never rotates
RECURSIVE InsertNodeNoRebalance(_, _)
InsertNodeNoRebalance(t, rec) ==
  IF t.nil THEN MkNode(rec, Nil, Nil)
  ELSE IF get_key(rec) < get_key(t.rec)
       THEN MkNode(t.rec, InsertNodeNoRebalance(t.left, rec), t.right)
  ELSE IF get_key(rec) > get_key(t.rec)
       THEN MkNode(t.rec, t.left, InsertNodeNoRebalance(t.right, rec))
  ELSE t

RECURSIVE InsertNode(_, _)
InsertNode(t, rec) ==
  IF t.nil THEN MkNode(rec, Nil, Nil)
  ELSE IF get_key(rec) < get_key(t.rec)
       THEN Rebalance(MkNode(t.rec, InsertNode(t.left, rec), t.right))
  ELSE IF get_key(rec) > get_key(t.rec)
       THEN Rebalance(MkNode(t.rec, t.left, InsertNode(t.right, rec)))
  ELSE t

\* takes the right child itself for the in-order successor
MinNodeIsChild(t) == t

RECURSIVE MinNode(_)
MinNode(t) == IF t.left.nil THEN t ELSE MinNode(t.left)

\* a removal that copies the in-order successor into the node and leaves
\* the successor's own node in place
RECURSIVE RemoveNodeKeepsSuccessor(_, _)
RemoveNodeKeepsSuccessor(t, k) ==
  IF t.nil THEN t
  ELSE IF k < get_key(t.rec)
       THEN Rebalance(MkNode(t.rec, RemoveNodeKeepsSuccessor(t.left, k), t.right))
  ELSE IF k > get_key(t.rec)
       THEN Rebalance(MkNode(t.rec, t.left, RemoveNodeKeepsSuccessor(t.right, k)))
  ELSE IF t.left.nil THEN t.right
  ELSE IF t.right.nil THEN t.left
  ELSE Rebalance(MkNode(MinNode(t.right).rec, t.left, t.right))

RECURSIVE RemoveNode(_, _)
RemoveNode(t, k) ==
  IF t.nil THEN t
  ELSE IF k < get_key(t.rec)
       THEN Rebalance(MkNode(t.rec, RemoveNode(t.left, k), t.right))
  ELSE IF k > get_key(t.rec)
       THEN Rebalance(MkNode(t.rec, t.left, RemoveNode(t.right, k)))
  ELSE IF t.left.nil THEN t.right
  ELSE IF t.right.nil THEN t.left
  ELSE LET s == MinNode(t.right)
       IN  Rebalance(MkNode(s.rec, t.left, RemoveNode(t.right, get_key(s.rec))))

\* AVLTree::find : Result<&T, ApplicationError>
find(t, k) ==
  IF Lookup(t, k).nil
  THEN [err |-> "NotFoundError", rec |-> Nil]
  ELSE [err |-> "none", rec |-> Lookup(t, k).rec]

\* an insert that reports success for a key the tree already holds
insert_ignores_duplicate(t, rec) == [err |-> "none", tree |-> InsertNode(t, rec)]

\* AVLTree::insert : Result<(), ApplicationError>
insert(t, rec) ==
  IF ~Lookup(t, get_key(rec)).nil
  THEN [err |-> "DuplicateKeyError", tree |-> t]
  ELSE [err |-> "none", tree |-> InsertNode(t, rec)]

\* a remove that reports success for a key the tree does not hold
remove_ignores_absent(t, k) == [err |-> "none", tree |-> RemoveNode(t, k)]

\* AVLTree::remove : Result<(), ApplicationError>
remove(t, k) ==
  IF Lookup(t, k).nil
  THEN [err |-> "NotFoundError", tree |-> t]
  ELSE [err |-> "none", tree |-> RemoveNode(t, k)]

(***************************************************************************)
(* employee_client_pairs : HashMap<i32, Vec<i32>>                          *)
(***************************************************************************)
\* .entry(e).or_insert_with(Vec::new).push(id)
PairsPush(p, e, id) ==
  MapInsert(p, e, Append(IF e \in DOMAIN p THEN p[e] ELSE <<>>, id))

\* a retain that leaves the emptied list in the map
PairsRetainKeepsEmpty(p, e, id) ==
  IF e \in DOMAIN p
  THEN MapInsert(p, e, SelectSeq(p[e], LAMBDA x : x # id))
  ELSE p

\* if let Some(list) = get_mut(e) { list.retain(|x| x != id);
\*                                  if list.is_empty() { remove(e) } }
PairsRetain(p, e, id) ==
  IF e \in DOMAIN p
  THEN LET list == SelectSeq(p[e], LAMBDA x : x # id)
       IN  IF list = <<>> THEN MapRemove(p, e) ELSE MapInsert(p, e, list)
  ELSE p

(***************************************************************************)
(* The remote store (DatabaseManager).  Its committed content changes only *)
(* when commit_transaction succeeds; the statements of an open             *)
(* transaction act on a working copy that a rollback discards.             *)
(***************************************************************************)
\* ids the store can assign to a new row of table tbl
FreshIds(tbl, ids) == {i \in ids : i >= 1 /\ i \notin DOMAIN tbl}

DbNewClient(w, c, id) ==
  [w EXCEPT !.clients = MapInsert(@, id, [c EXCEPT !.client_id = id])]

DbUpdateClient(w, c) ==
  IF c.client_id \in DOMAIN w.clients
  THEN [w EXCEPT !.clients = MapInsert(@, c.client_id, c)]
  ELSE w

DbRemoveClient(w, c) == [w EXCEPT !.clients = MapRemove(@, c.client_id)]

DbNewEmployee(w, e, id) ==
  [w EXCEPT !.employees = MapInsert(@, id, [e EXCEPT !.employee_id = id])]

DbUpdateEmployee(w, e) ==
  IF e.employee_id \in DOMAIN w.employees
  THEN [w EXCEPT !.employees = MapInsert(@, e.employee_id, e)]
  ELSE w

DbRemoveEmployee(w, id) == [w EXCEPT !.employees = MapRemove(@, id)]

\* the store a handler is constructed over: a fresh one, or one that
\* already holds a client and the employee it is assigned to
SeedClient ==
  [client_id |-> 1, client_name |-> "Ana", client_service |-> 1,
   asn_employee_id |-> 1]

SeedEmployee ==
  [employee_id |-> 1, employee_name |-> "Eve", hashed_password |-> "h1"]

InitialStores ==
  {[clients |-> EmptyMap, employees |-> EmptyMap],
   [clients |-> MapInsert(EmptyMap, 1, SeedClient),
    employees |-> MapInsert(EmptyMap, 1, SeedEmployee)]}

(***************************************************************************)
(* State                                                                   *)
(***************************************************************************)
VARIABLES
  local_avl_tree,         \* ClientHandler.local_avl_tree
  employee_client_pairs,  \* ClientHandler.employee_client_pairs
  stored_hashes,          \* EmployeeHandler.stored_hashes
  stored_employees,       \* EmployeeHandler.stored_employees
  db,                     \* committed content of the remote store
  work,                   \* working copy of the open remote transaction
  transaction,            \* the Transaction guard of the running operation
  pc,                     \* position inside the running operation
  op,                     \* running (or last finished) handler operation
  arg,                    \* its argument
  old_employee_id,        \* local of update_client
  result,                 \* what the operation returns
  calls,                  \* store calls issued by the operation, in order
  pre,                    \* local structures and store when it was called
  nops,                   \* operations started so far
  budget,                 \* operations the run may start
  menu                    \* locals and position of the running workflow
                          \* (Menu, login_handler, initial_employee_setup)

vars ==
  <<local_avl_tree, employee_client_pairs, stored_hashes, stored_employees,
    db, work, transaction, pc, op, arg, old_employee_id, result, calls, pre,
    nops, budget, menu>>

clientLocal == <<local_avl_tree, employee_client_pairs>>
employeeLocal == <<stored_hashes, stored_employees>>

NoTransaction == [live |-> FALSE, completed |-> FALSE]
\* no Menu workflow is running
NoMenu == [pc |-> "none"]
Running == [kind |-> "Running", from |-> "none"]
Ok == [kind |-> "Ok", from |-> "none"]
StoreError(call) == [kind |-> "StoreError", from |-> call]
LocalError(kind) == [kind |-> kind, from |-> "local"]
Call(name, ok) == [call |-> name, ok |-> ok]

Snapshot ==
  [tree |-> local_avl_tree, pairs |-> employee_client_pairs,
   hashes |-> stored_hashes, employees |-> stored_employees, db |-> db]

At(o, p) == op = o /\ pc = p

(***************************************************************************)
(* ClientHandler::new : eager load of every client of the store            *)
(***************************************************************************)
RECURSIVE LoadClients(_, _, _, _)
LoadClients(tbl, todo, t, p) ==
  IF todo = {} THEN [tree |-> t, pairs |-> p]
  ELSE LET i == CHOOSE x \in todo : \A y \in todo : x <= y
           c == tbl[i]
       IN  LoadClients(tbl, todo \ {i}, insert(t, c).tree,
                       PairsPush(p, c.asn_employee_id, c.client_id))

ClientHandlerNew(d) == LoadClients(d.clients, DOMAIN d.clients, Nil, EmptyMap)

\* both handlers right after construction over a store, no operation called
HandlersNew ==
  /\ db \in InitialStores
  /\ work = db
  /\ local_avl_tree = ClientHandlerNew(db).tree
  /\ employee_client_pairs = ClientHandlerNew(db).pairs
  /\ stored_hashes = EmptyMap
  /\ stored_employees = EmptyMap
  /\ transaction = NoTransaction
  /\ pc = "idle"
  /\ op = "none"
  /\ arg = 0
  /\ old_employee_id = 0
  /\ result = Ok
  /\ calls = <<>>
  /\ pre = Snapshot
  /\ nops = 0
  /\ menu = NoMenu

Init ==
  /\ HandlersNew
  /\ budget = MaxOps

\* the stores a ClientHandler may be constructed over: any clients with ids
\* among 1 .. MaxStoredClients, each assigned to some employee
NewStores ==
  {[clients |-> [i \in DOMAIN g |->
                   [client_id |-> i, client_name |-> "Ana",
                    client_service |-> 1, asn_employee_id |-> g[i]]],
    employees |-> EmptyMap] :
     g \in UNION {[S -> GroupKeys] : S \in SUBSET (1..MaxStoredClients)}}

\* DatabaseManager::get_clients : the rows of the table, in any order
DbGetClients(d) ==
  {[i \in 1..Cardinality(DOMAIN d.clients) |-> d.clients[f[i]]] :
     f \in {g \in [1..Cardinality(DOMAIN d.clients) -> DOMAIN d.clients] :
              \A i, j \in DOMAIN g : i # j => g[i] # g[j]}}

\* no ClientHandler yet: ClientHandler::new is about to be called
InitNew ==
  /\ db \in NewStores
  /\ work = db
  /\ local_avl_tree = Nil
  /\ employee_client_pairs = EmptyMap
  /\ stored_hashes = EmptyMap
  /\ stored_employees = EmptyMap
  /\ transaction = NoTransaction
  /\ pc = "new"
  /\ op = "ClientHandler::new"
  /\ arg = <<>>
  /\ old_employee_id = 0
  /\ result = Running
  /\ calls = <<>>
  /\ pre = Snapshot
  /\ nops = 0
  /\ budget = 0
  /\ menu = NoMenu

\* let clients = database.get_clients().map_err(ApplicationError::from)?;
\* arg holds the clients still to be loaded
ClientHandler_new_get_clients ==
  /\ At("ClientHandler::new", "new")
  /\ \E ok \in BOOLEAN :
       /\ calls' = <<Call("get_clients", ok)>>
       /\ IF ok
          THEN /\ arg' \in DbGetClients(db)
               /\ pc' = "for"
               /\ result' = result
          ELSE /\ arg' = arg
               /\ pc' = "failed"
               /\ result' = StoreError("get_clients")
  /\ UNCHANGED <<clientLocal, employeeLocal, db, work, transaction, op,
                 old_employee_id, pre, nops, budget, menu>>

\* a loop body that loads the tree and forgets the group index
ClientHandler_new_for_skips_pairs(client) ==
  /\ employee_client_pairs' = employee_client_pairs
  /\ IF insert(local_avl_tree, client).err # "none"
     THEN /\ local_avl_tree' = local_avl_tree
          /\ pc' = "failed"
          /\ result' = LocalError(insert(local_avl_tree, client).err)
     ELSE /\ local_avl_tree' = insert(local_avl_tree, client).tree
          /\ pc' = pc
          /\ result' = result

\* the body of for client in clients : push to the group of the client's
\* assigned employee, then local_avltree.insert(client)?
ClientHandler_new_for_body(client) ==
  /\ employee_client_pairs' =
       PairsPush(employee_client_pairs, client.asn_employee_id, client.client_id)
  /\ IF insert(local_avl_tree, client).err # "none"
     THEN /\ local_avl_tree' = local_avl_tree
          /\ pc' = "failed"
          /\ result' = LocalError(insert(local_avl_tree, client).err)
     ELSE /\ local_avl_tree' = insert(local_avl_tree, client).tree
          /\ pc' = pc
          /\ result' = result

\* one iteration of for client in clients
ClientHandler_new_for ==
  /\ At("ClientHandler::new", "for")
  /\ arg # <<>>
  /\ ClientHandler_new_for_body(Head(arg))
  /\ arg' = Tail(arg)
  /\ UNCHANGED <<employeeLocal, db, work, transaction, op, old_employee_id,
                 calls, pre, nops, budget, menu>>

\* Ok(Self { local_avl_tree, database, employee_client_pairs })
ClientHandler_new_return ==
  /\ At("ClientHandler::new", "for")
  /\ arg = <<>>
  /\ pc' = "idle"
  /\ result' = Ok
  /\ UNCHANGED <<clientLocal, employeeLocal, db, work, transaction, op, arg,
                 old_employee_id, calls, pre, nops, budget, menu>>

NextNew ==
  \/ ClientHandler_new_get_clients
  \/ ClientHandler_new_for
  \/ ClientHandler_new_return

SpecNew == InitNew /\ [][NextNew]_vars

(***************************************************************************)
(* Transaction                                                             *)
(***************************************************************************)
\* a handler operation is called with argument a
Enter(o, a) ==
  /\ pc = "idle"
  /\ nops < budget
  /\ nops' = nops + 1
  /\ budget' = budget
  /\ op' = o
  /\ arg' = a
  /\ pre' = Snapshot

\* Transaction::new that hands out a guard although begin_transaction failed
TransactionNewGuardOnError(ok) ==
  /\ calls' = <<Call("begin_transaction", ok)>>
  /\ transaction' = [live |-> TRUE, completed |-> FALSE]
  /\ work' = db
  /\ IF ok
     THEN pc' = "remote" /\ result' = Running
     ELSE pc' = "drop" /\ result' = StoreError("begin_transaction")

\* Transaction::new whose caller ignores the error of begin_transaction
TransactionNewIgnoresError(ok) ==
  /\ calls' = <<Call("begin_transaction", ok)>>
  /\ transaction' = IF ok THEN [live |-> TRUE, completed |-> FALSE] ELSE NoTransaction
  /\ work' = db
  /\ pc' = "remote"
  /\ result' = Running

\* Transaction::new
TransactionNew(ok) ==
  /\ calls' = <<Call("begin_transaction", ok)>>
  /\ IF ok
     THEN /\ transaction' = [live |-> TRUE, completed |-> FALSE]
          /\ work' = db
          /\ pc' = "remote"
          /\ result' = Running
     ELSE /\ transaction' = NoTransaction
          /\ work' = work
          /\ pc' = "idle"
          /\ result' = StoreError("begin_transaction")

\* a remote call whose error is recorded but does not stop the operation
RemoteIgnoresError(name, ok, w, next) ==
  /\ calls' = Append(calls, Call(name, ok))
  /\ work' = IF ok THEN w ELSE work
  /\ pc' = next
  /\ result' = IF ok THEN result ELSE StoreError(name)

\* a remote call whose error returns without dropping the guard
RemoteLeaksGuard(name, ok, w, next) ==
  /\ calls' = Append(calls, Call(name, ok))
  /\ IF ok
     THEN /\ work' = w
          /\ pc' = next
          /\ result' = result
     ELSE /\ work' = work
          /\ pc' = "idle"
          /\ result' = StoreError(name)

\* transaction.db.<name>(..)? : w is the working copy after the statement
Remote(name, ok, w, next) ==
  /\ calls' = Append(calls, Call(name, ok))
  /\ IF ok
     THEN /\ work' = w
          /\ pc' = next
          /\ result' = result
     ELSE /\ work' = work
          /\ pc' = "drop"
          /\ result' = StoreError(name)

\* Transaction::commit that sets completed before it calls the store
TransactionCommitMarksFirst(ok) ==
  /\ calls' = Append(calls, Call("commit_transaction", ok))
  /\ pc' = "drop"
  /\ transaction' = [transaction EXCEPT !.completed = TRUE]
  /\ IF ok
     THEN /\ db' = work
          /\ result' = result
     ELSE /\ db' = db
          /\ result' = StoreError("commit_transaction")

\* Transaction::commit
TransactionCommit(ok) ==
  /\ calls' = Append(calls, Call("commit_transaction", ok))
  /\ pc' = "drop"
  /\ IF ok
     THEN /\ transaction' = [transaction EXCEPT !.completed = TRUE]
          /\ db' = work
          /\ result' = result
     ELSE /\ transaction' = transaction
          /\ db' = db
          /\ result' = StoreError("commit_transaction")

\* what the operation does once its guard is gone
AfterDrop(next) ==
  IF result = Running
  THEN IF next = "idle"
       THEN pc' = "idle" /\ result' = Ok
       ELSE pc' = next /\ result' = result
  ELSE pc' = "idle" /\ result' = result

\* a drop that never rolls back
TransactionDropNoRollback(ok, next) ==
  /\ transaction' = NoTransaction
  /\ calls' = calls
  /\ work' = work
  /\ AfterDrop(next)

\* a drop that rolls back without looking at completed
TransactionDropAlways(ok, next) ==
  /\ transaction' = NoTransaction
  /\ calls' = Append(calls, Call("rollback_transaction", ok))
  /\ work' = db
  /\ AfterDrop(next)

\* a drop that lets the error of rollback_transaction replace the result
TransactionDropPropagates(ok, next) ==
  /\ transaction' = NoTransaction
  /\ IF ~transaction.completed
     THEN /\ calls' = Append(calls, Call("rollback_transaction", ok))
          /\ work' = db
          /\ IF ok THEN AfterDrop(next)
             ELSE pc' = "idle" /\ result' = StoreError("rollback_transaction")
     ELSE /\ calls' = calls
          /\ work' = work
          /\ AfterDrop(next)

\* impl Drop for Transaction; next is where the operation continues when
\* the guard was consumed by a successful commit
TransactionDrop(ok, next) ==
  /\ transaction' = NoTransaction
  /\ IF ~transaction.completed
     THEN /\ calls' = Append(calls, Call("rollback_transaction", ok))
          /\ work' = db
     ELSE /\ calls' = calls
          /\ work' = work
  /\ AfterDrop(next)

\* an error of a local structure: the operation unwinds (the guard drops)
Unwind(kind) ==
  /\ pc' = IF transaction.live THEN "drop" ELSE "idle"
  /\ result' = LocalError(kind)

(***************************************************************************)
(* ClientHandler                                                           *)
(***************************************************************************)
\* ClientHandler::get_client
get_client(id) == find(local_avl_tree, id)

\* ClientHandler::get_clients_for_employee : None is the empty sequence <<>>
\* of a key that is not in the map
HasClients(employee_id) == employee_id \in DOMAIN employee_client_pairs

\* ClientHandler::get_clients_for_employee : Option<&Vec<i32>>
get_clients_for_employee(employee_id) ==
  IF employee_id \in DOMAIN employee_client_pairs
  THEN [some |-> TRUE, list |-> employee_client_pairs[employee_id]]
  ELSE [some |-> FALSE, list |-> <<>>]

\* a new_client that pushes the id to its group before inserting into the
\* tree
new_client_local_pushes_first(t, p, client) ==
  LET ins == insert(t, client)
      p2 == PairsPush(p, client.asn_employee_id, client.client_id)
  IN  IF ins.err # "none"
      THEN [err |-> ins.err, tree |-> t, pairs |-> p2]
      ELSE [err |-> "none", tree |-> ins.tree, pairs |-> p2]

\* new_client, statements after the remote call
new_client_local(t, p, client) ==
  LET ins == insert(t, client)
  IN  IF ins.err # "none"
      THEN [err |-> ins.err, tree |-> t, pairs |-> p]
      ELSE [err |-> "none", tree |-> ins.tree,
            pairs |-> PairsPush(p, client.asn_employee_id, client.client_id)]

\* remove_client, statements after the remote call
remove_client_local(t, p, client) ==
  LET p2 == PairsRetain(p, client.asn_employee_id, client.client_id)
      rem == remove(t, client.client_id)
  IN  [err |-> rem.err, tree |-> rem.tree, pairs |-> p2]

\* an update_client that re-points the group index and forgets the tree
update_client_local_skips_tree(t, p, client, old) ==
  [err |-> "none", tree |-> t,
   pairs |-> IF old # client.asn_employee_id
             THEN PairsPush(PairsRetain(p, old, client.client_id),
                            client.asn_employee_id, client.client_id)
             ELSE p]

\* an update_client that pushes the id to the group of the argument whether
\* or not the assigned employee changed
update_client_local_always_pushes(t, p, client, old) ==
  LET employee_changed == old # client.asn_employee_id
      p2 == PairsPush(IF employee_changed
                      THEN PairsRetain(p, old, client.client_id)
                      ELSE p,
                      client.asn_employee_id, client.client_id)
      rem == remove(t, client.client_id)
      ins == insert(rem.tree, client)
  IN  IF rem.err # "none" THEN [err |-> rem.err, tree |-> t, pairs |-> p2]
      ELSE IF ins.err # "none" THEN [err |-> ins.err, tree |-> rem.tree, pairs |-> p2]
      ELSE [err |-> "none", tree |-> ins.tree, pairs |-> p2]

\* update_client, statements after the transaction block
update_client_local(t, p, client, old) ==
  LET employee_changed == old # client.asn_employee_id
      p2 == IF employee_changed
            THEN PairsPush(PairsRetain(p, old, client.client_id),
                           client.asn_employee_id, client.client_id)
            ELSE p
      rem == remove(t, client.client_id)
      ins == insert(rem.tree, client)
  IN  IF rem.err # "none" THEN [err |-> rem.err, tree |-> t, pairs |-> p2]
      ELSE IF ins.err # "none" THEN [err |-> ins.err, tree |-> rem.tree, pairs |-> p2]
      ELSE [err |-> "none", tree |-> ins.tree, pairs |-> p2]

\* a client operation that forgets its local statements
ClientLocalSkips(r, next) ==
  /\ UNCHANGED <<local_avl_tree, employee_client_pairs>>
  /\ IF next = "idle"
     THEN pc' = "idle" /\ result' = Ok
     ELSE pc' = next /\ result' = result

\* applies the outcome r of the local statements of a client operation
ClientLocal(r, next) ==
  /\ local_avl_tree' = r.tree
  /\ employee_client_pairs' = r.pairs
  /\ IF r.err # "none"
     THEN Unwind(r.err)
     ELSE IF next = "idle"
          THEN pc' = "idle" /\ result' = Ok
          ELSE pc' = next /\ result' = result

new_client ==
  \/ \E client \in Client, ok \in BOOLEAN :
       /\ Enter("new_client", client)
       /\ TransactionNew(ok)
       /\ UNCHANGED <<clientLocal, employeeLocal, db, old_employee_id, menu>>
  \/ /\ At("new_client", "remote")
     /\ \E ok \in BOOLEAN, id \in ClientIds :
          /\ ok => id \in FreshIds(work.clients, ClientIds)
          /\ Remote("new_client", ok, DbNewClient(work, arg, id), "local")
     /\ UNCHANGED <<clientLocal, employeeLocal, db, transaction, op, arg,
                    old_employee_id, pre, nops, budget, menu>>
  \/ /\ At("new_client", "local")
     /\ ClientLocal(new_client_local(local_avl_tree, employee_client_pairs, arg),
                    "commit")
     /\ UNCHANGED <<employeeLocal, db, work, transaction, op, arg,
                    old_employee_id, calls, pre, nops, budget, menu>>
  \/ /\ At("new_client", "commit")
     /\ \E ok \in BOOLEAN : TransactionCommit(ok)
     /\ UNCHANGED <<clientLocal, employeeLocal, work, op, arg,
                    old_employee_id, pre, nops, budget, menu>>
  \/ /\ At("new_client", "drop")
     /\ \E ok \in BOOLEAN : TransactionDrop(ok, "idle")
     /\ UNCHANGED <<clientLocal, employeeLocal, db, op, arg,
                    old_employee_id, pre, nops, budget, menu>>

remove_client ==
  \/ \E client \in Client, ok \in BOOLEAN :
       /\ Enter("remove_client", client)
       /\ TransactionNew(ok)
       /\ UNCHANGED <<clientLocal, employeeLocal, db, old_employee_id, menu>>
  \/ /\ At("remove_client", "remote")
     /\ \E ok \in BOOLEAN :
          Remote("remove_client", ok, DbRemoveClient(work, arg), "local")
     /\ UNCHANGED <<clientLocal, employeeLocal, db, transaction, op, arg,
                    old_employee_id, pre, nops, budget, menu>>
  \/ /\ At("remove_client", "local")
     /\ ClientLocal(remove_client_local(local_avl_tree, employee_client_pairs, arg),
                    "commit")
     /\ UNCHANGED <<employeeLocal, db, work, transaction, op, arg,
                    old_employee_id, calls, pre, nops, budget, menu>>
  \/ /\ At("remove_client", "commit")
     /\ \E ok \in BOOLEAN : TransactionCommit(ok)
     /\ UNCHANGED <<clientLocal, employeeLocal, work, op, arg,
                    old_employee_id, pre, nops, budget, menu>>
  \/ /\ At("remove_client", "drop")
     /\ \E ok \in BOOLEAN : TransactionDrop(ok, "idle")
     /\ UNCHANGED <<clientLocal, employeeLocal, db, op, arg,
                    old_employee_id, pre, nops, budget, menu>>

\* an update_client that goes on to the store although the lookup failed
update_client_call_ignores_miss(client, ok) ==
  /\ Enter("update_client", client)
  /\ old_employee_id' = IF get_client(client.client_id).err # "none"
                        THEN 0
                        ELSE get_client(client.client_id).rec.asn_employee_id
  /\ TransactionNew(ok)
  /\ UNCHANGED <<clientLocal, employeeLocal, db>>

\* update_client is called with client: the lookup of the cached record and
\* Transaction::new
update_client_call(client, ok) ==
  /\ Enter("update_client", client)
  /\ IF get_client(client.client_id).err # "none"
     THEN /\ result' = LocalError(get_client(client.client_id).err)
          /\ calls' = <<>>
          /\ UNCHANGED <<pc, work, transaction, old_employee_id>>
     ELSE /\ old_employee_id' = get_client(client.client_id).rec.asn_employee_id
          /\ TransactionNew(ok)
  /\ UNCHANGED <<clientLocal, employeeLocal, db>>

\* update_client after Transaction::new, statement by statement
update_client_steps ==
  \/ /\ At("update_client", "remote")
     /\ \E ok \in BOOLEAN :
          Remote("update_client", ok, DbUpdateClient(work, arg), "commit")
     /\ UNCHANGED <<clientLocal, employeeLocal, db, transaction, op, arg,
                    old_employee_id, pre, nops, budget, menu>>
  \/ /\ At("update_client", "commit")
     /\ \E ok \in BOOLEAN : TransactionCommit(ok)
     /\ UNCHANGED <<clientLocal, employeeLocal, work, op, arg,
                    old_employee_id, pre, nops, budget, menu>>
  \/ /\ At("update_client", "drop")
     /\ \E ok \in BOOLEAN : TransactionDrop(ok, "local")
     /\ UNCHANGED <<clientLocal, employeeLocal, db, op, arg,
                    old_employee_id, pre, nops, budget, menu>>
  \/ /\ At("update_client", "local")
     /\ ClientLocal(update_client_local(local_avl_tree, employee_client_pairs,
                                        arg, old_employee_id), "idle")
     /\ UNCHANGED <<employeeLocal, db, work, transaction, op, arg,
                    old_employee_id, calls, pre, nops, budget, menu>>

update_client ==
  \/ \E client \in Client, ok \in BOOLEAN :
       /\ update_client_call(client, ok)
       /\ UNCHANGED menu
  \/ update_client_steps

(***************************************************************************)
(* EmployeeHandler                                                         *)
(***************************************************************************)
\* add_new_employee / modify_employee, statements after the remote call
store_employee_local(employee) ==
  /\ stored_hashes' =
       MapInsert(stored_hashes, employee.employee_id, employee.hashed_password)
  /\ stored_employees' = MapInsert(stored_employees, employee.employee_id, employee)
  /\ pc' = "commit"

\* delete_employee, statements after the remote call
delete_employee_local(employee_id) ==
  /\ stored_hashes' = MapRemove(stored_hashes, employee_id)
  /\ stored_employees' = MapRemove(stored_employees, employee_id)
  /\ pc' = "commit"

\* add_new_employee is called with employee : Transaction::new(..)?
add_new_employee_call(employee, ok) ==
  /\ Enter("add_new_employee", employee)
  /\ TransactionNew(ok)
  /\ UNCHANGED <<clientLocal, employeeLocal, db, old_employee_id, menu>>

\* the statements of add_new_employee after Transaction::new
add_new_employee_steps ==
  \/ /\ At("add_new_employee", "remote")
     /\ \E ok \in BOOLEAN, id \in EmployeeIds :
          /\ ok => id \in FreshIds(work.employees, EmployeeIds)
          /\ Remote("new_employee", ok, DbNewEmployee(work, arg, id), "local")
     /\ UNCHANGED <<clientLocal, employeeLocal, db, transaction, op, arg,
                    old_employee_id, pre, nops, budget, menu>>
  \/ /\ At("add_new_employee", "local")
     /\ store_employee_local(arg)
     /\ UNCHANGED <<clientLocal, db, work, transaction, op, arg,
                    old_employee_id, result, calls, pre, nops, budget, menu>>
  \/ /\ At("add_new_employee", "commit")
     /\ \E ok \in BOOLEAN : TransactionCommit(ok)
     /\ UNCHANGED <<clientLocal, employeeLocal, work, op, arg,
                    old_employee_id, pre, nops, budget, menu>>
  \/ /\ At("add_new_employee", "drop")
     /\ \E ok \in BOOLEAN : TransactionDrop(ok, "idle")
     /\ UNCHANGED <<clientLocal, employeeLocal, db, op, arg,
                    old_employee_id, pre, nops, budget, menu>>

add_new_employee ==
  \/ \E employee \in Employee, ok \in BOOLEAN :
       add_new_employee_call(employee, ok)
  \/ add_new_employee_steps

modify_employee ==
  \/ \E employee \in Employee, ok \in BOOLEAN :
       /\ Enter("modify_employee", employee)
       /\ TransactionNew(ok)
       /\ UNCHANGED <<clientLocal, employeeLocal, db, old_employee_id, menu>>
  \/ /\ At("modify_employee", "remote")
     /\ \E ok \in BOOLEAN :
          Remote("update_employee", ok, DbUpdateEmployee(work, arg), "local")
     /\ UNCHANGED <<clientLocal, employeeLocal, db, transaction, op, arg,
                    old_employee_id, pre, nops, budget, menu>>
  \/ /\ At("modify_employee", "local")
     /\ store_employee_local(arg)
     /\ UNCHANGED <<clientLocal, db, work, transaction, op, arg,
                    old_employee_id, result, calls, pre, nops, budget, menu>>
  \/ /\ At("modify_employee", "commit")
     /\ \E ok \in BOOLEAN : TransactionCommit(ok)
     /\ UNCHANGED <<clientLocal, employeeLocal, work, op, arg,
                    old_employee_id, pre, nops, budget, menu>>
  \/ /\ At("modify_employee", "drop")
     /\ \E ok \in BOOLEAN : TransactionDrop(ok, "idle")
     /\ UNCHANGED <<clientLocal, employeeLocal, db, op, arg,
                    old_employee_id, pre, nops, budget, menu>>

delete_employee ==
  \/ \E employee_id \in EmployeeIds, ok \in BOOLEAN :
       /\ Enter("delete_employee", employee_id)
       /\ TransactionNew(ok)
       /\ UNCHANGED <<clientLocal, employeeLocal, db, old_employee_id, menu>>
  \/ /\ At("delete_employee", "remote")
     /\ \E ok \in BOOLEAN :
          Remote("remove_employee", ok, DbRemoveEmployee(work, arg), "local")
     /\ UNCHANGED <<clientLocal, employeeLocal, db, transaction, op, arg,
                    old_employee_id, pre, nops, budget, menu>>
  \/ /\ At("delete_employee", "local")
     /\ delete_employee_local(arg)
     /\ UNCHANGED <<clientLocal, db, work, transaction, op, arg,
                    old_employee_id, result, calls, pre, nops, budget, menu>>
  \/ /\ At("delete_employee", "commit")
     /\ \E ok \in BOOLEAN : TransactionCommit(ok)
     /\ UNCHANGED <<clientLocal, employeeLocal, work, op, arg,
                    old_employee_id, pre, nops, budget, menu>>
  \/ /\ At("delete_employee", "drop")
     /\ \E ok \in BOOLEAN : TransactionDrop(ok, "idle")
     /\ UNCHANGED <<clientLocal, employeeLocal, db, op, arg,
                    old_employee_id, pre, nops, budget, menu>>

(***************************************************************************)
(* Read operations of both handlers.  Each issues at most one store call,  *)
(* outside any transaction, so each is one step.                           *)
(***************************************************************************)
\* Ok(v)
Value(v) == [kind |-> "Ok", from |-> "none", value |-> v]
\* Option::Some(v), Option::None
Some(v) == [some |-> TRUE, val |-> v]
None == [some |-> FALSE]

\* what a read returns, the store calls it issued and the caches it leaves
ReadResult(r, c, h, e) == [result |-> r, calls |-> c, hashes |-> h, employees |-> e]

\* get_employee_hash that does not store the hash it fetched
get_employee_hash_forgets(hashes, employees, d, employee_id, ok) ==
  IF employee_id \in DOMAIN hashes
  THEN ReadResult(Value(Some(hashes[employee_id])), <<>>, hashes, employees)
  ELSE IF ~ok
  THEN ReadResult(StoreError("get_employee_hash"),
                  <<Call("get_employee_hash", FALSE)>>, hashes, employees)
  ELSE IF employee_id \in DOMAIN d.employees
  THEN ReadResult(Value(Some(d.employees[employee_id].hashed_password)),
                  <<Call("get_employee_hash", TRUE)>>, hashes, employees)
  ELSE ReadResult(Value(None), <<Call("get_employee_hash", TRUE)>>,
                  hashes, employees)

\* EmployeeHandler::get_employee_hash on the caches hashes, employees over
\* the store content d; ok is the outcome of the store call, if one is issued
get_employee_hash_result(hashes, employees, d, employee_id, ok) ==
  IF employee_id \in DOMAIN hashes
  THEN ReadResult(Value(Some(hashes[employee_id])), <<>>, hashes, employees)
  ELSE IF ~ok
  THEN ReadResult(StoreError("get_employee_hash"),
                  <<Call("get_employee_hash", FALSE)>>, hashes, employees)
  ELSE IF employee_id \in DOMAIN d.employees
  THEN ReadResult(Value(Some(d.employees[employee_id].hashed_password)),
                  <<Call("get_employee_hash", TRUE)>>,
                  MapInsert(hashes, employee_id,
                            d.employees[employee_id].hashed_password),
                  employees)
  ELSE ReadResult(Value(None), <<Call("get_employee_hash", TRUE)>>,
                  hashes, employees)

\* get_employee that asks the store before it looks at the cache
get_employee_always_reads(hashes, employees, d, employee_id, ok) ==
  IF ~ok
  THEN ReadResult(StoreError("get_employee"),
                  <<Call("get_employee", FALSE)>>, hashes, employees)
  ELSE IF employee_id \in DOMAIN employees
  THEN ReadResult(Value(Some(employees[employee_id])),
                  <<Call("get_employee", TRUE)>>, hashes, employees)
  ELSE IF employee_id \in DOMAIN d.employees
  THEN ReadResult(Value(Some(d.employees[employee_id])),
                  <<Call("get_employee", TRUE)>>,
                  MapInsert(hashes, employee_id,
                            d.employees[employee_id].hashed_password),
                  MapInsert(employees, employee_id, d.employees[employee_id]))
  ELSE ReadResult(Value(None), <<Call("get_employee", TRUE)>>,
                  hashes, employees)

\* get_employee that caches the record it fetched without its hash
get_employee_caches_record_only(hashes, employees, d, employee_id, ok) ==
  IF employee_id \in DOMAIN employees
  THEN ReadResult(Value(Some(employees[employee_id])), <<>>, hashes, employees)
  ELSE IF ~ok
  THEN ReadResult(StoreError("get_employee"),
                  <<Call("get_employee", FALSE)>>, hashes, employees)
  ELSE IF employee_id \in DOMAIN d.employees
  THEN ReadResult(Value(Some(d.employees[employee_id])),
                  <<Call("get_employee", TRUE)>>,
                  hashes,
                  MapInsert(employees, employee_id, d.employees[employee_id]))
  ELSE ReadResult(Value(None), <<Call("get_employee", TRUE)>>,
                  hashes, employees)

\* EmployeeHandler::get_employee
get_employee_result(hashes, employees, d, employee_id, ok) ==
  IF employee_id \in DOMAIN employees
  THEN ReadResult(Value(Some(employees[employee_id])), <<>>, hashes, employees)
  ELSE IF ~ok
  THEN ReadResult(StoreError("get_employee"),
                  <<Call("get_employee", FALSE)>>, hashes, employees)
  ELSE IF employee_id \in DOMAIN d.employees
  THEN ReadResult(Value(Some(d.employees[employee_id])),
                  <<Call("get_employee", TRUE)>>,
                  MapInsert(hashes, employee_id,
                            d.employees[employee_id].hashed_password),
                  MapInsert(employees, employee_id, d.employees[employee_id]))
  ELSE ReadResult(Value(None), <<Call("get_employee", TRUE)>>,
                  hashes, employees)

\* is_valid_employee_id that answers is_none()
is_valid_employee_id_negated(hashes, employees, d, employee_id, ok) ==
  LET r == get_employee_result(hashes, employees, d, employee_id, ok)
  IN  IF r.result.kind # "Ok" THEN r
      ELSE [r EXCEPT !.result = Value(~r.result.value.some)]

\* EmployeeHandler::is_valid_employee_id :
\* Ok(self.get_employee(employee_id)?.is_some())
is_valid_employee_id_result(hashes, employees, d, employee_id, ok) ==
  LET r == get_employee_result(hashes, employees, d, employee_id, ok)
  IN  IF r.result.kind # "Ok" THEN r
      ELSE [r EXCEPT !.result = Value(r.result.value.some)]

\* an EmployeeHandler read returns with outcome r
EmployeeRead(r) ==
  /\ result' = r.result
  /\ calls' = r.calls
  /\ stored_hashes' = r.hashes
  /\ stored_employees' = r.employees
  /\ UNCHANGED <<clientLocal, db, work, transaction, pc, old_employee_id>>

get_employee_hash ==
  \E employee_id \in EmployeeIds, ok \in BOOLEAN :
    /\ Enter("get_employee_hash", employee_id)
    /\ EmployeeRead(get_employee_hash_result(stored_hashes, stored_employees,
                                             db, employee_id, ok))
    /\ UNCHANGED menu

get_employee ==
  \E employee_id \in EmployeeIds, ok \in BOOLEAN :
    /\ Enter("get_employee", employee_id)
    /\ EmployeeRead(get_employee_result(stored_hashes, stored_employees,
                                        db, employee_id, ok))
    /\ UNCHANGED menu

is_valid_employee_id ==
  \E employee_id \in EmployeeIds, ok \in BOOLEAN :
    /\ Enter("is_valid_employee_id", employee_id)
    /\ EmployeeRead(is_valid_employee_id_result(stored_hashes, stored_employees,
                                                db, employee_id, ok))
    /\ UNCHANGED menu

\* ClientHandler::get_client as a call: self.local_avl_tree.find(id)
get_client_result(t, id) ==
  IF find(t, id).err # "none"
  THEN LocalError(find(t, id).err)
  ELSE Value(find(t, id).rec)

\* a ClientHandler read returns r
ClientRead(r) ==
  /\ result' = r
  /\ calls' = <<>>
  /\ UNCHANGED <<clientLocal, employeeLocal, db, work, transaction, pc,
                 old_employee_id>>

get_client_read ==
  \E id \in ClientIds :
    /\ Enter("get_client", id)
    /\ ClientRead(get_client_result(local_avl_tree, id))
    /\ UNCHANGED menu

get_clients_for_employee_read ==
  \E employee_id \in GroupKeys :
    /\ Enter("get_clients_for_employee", employee_id)
    /\ ClientRead(Value(get_clients_for_employee(employee_id)))
    /\ UNCHANGED menu

(***************************************************************************)
(* Menu: the pairing-reassignment workflow                                 *)
(***************************************************************************)
\* everything but the menu
handlers ==
  <<local_avl_tree, employee_client_pairs, stored_hashes, stored_employees,
    db, work, transaction, pc, op, arg, old_employee_id, result, calls, pre,
    nops, budget>>

\* change_client_employee_pair has been chosen in Menu::run, over store d;
\* left tells how get_new_pair_employee_id was left, updates counts the
\* update_client calls of the workflow run
MenuStart(d) ==
  [pc |-> "start", client |-> Nil, new_employee_id |-> 0, left |-> "none",
   returned |-> "none", updates |-> 0, store |-> d]

\* what get_integer_input can give for an employee id
TargetIds == 0..MaxGroupKey

\* let client_id = get_integer_input()?;
\* let client = match self.client_handler.get_client(client_id) { .. };
client_pairing_handler_get_client ==
  /\ menu.pc = "start"
  /\ \/ /\ menu' = [menu EXCEPT !.pc = "done", !.returned = "Err"]
        /\ UNCHANGED handlers
     \/ \E client_id \in ClientIds :
          /\ Enter("get_client", client_id)
          /\ ClientRead(get_client_result(local_avl_tree, client_id))
          /\ menu' = IF get_client(client_id).err # "none"
                     THEN [menu EXCEPT !.pc = "done", !.returned = "Ok"]
                     ELSE [menu EXCEPT !.pc = "ask",
                                       !.client = get_client(client_id).rec]

\* a loop that takes the id although is_valid_employee_id answered false
pair_employee_accepts_invalid(m, target_employee_id, r) ==
  IF r.kind # "Ok"
  THEN [m EXCEPT !.pc = "done", !.left = "error", !.returned = "Err"]
  ELSE [m EXCEPT !.pc = "update", !.left = "valid",
                 !.new_employee_id = target_employee_id]

\* match self.employee_handler.is_valid_employee_id(target_employee_id) :
\* Ok(true) returns the id, Ok(false) asks again, Err(e) returns Err(e),
\* which client_pairing_handler propagates
pair_employee_choice(m, target_employee_id, r) ==
  IF r.kind # "Ok"
  THEN [m EXCEPT !.pc = "done", !.left = "error", !.returned = "Err"]
  ELSE IF r.value
  THEN [m EXCEPT !.pc = "update", !.left = "valid",
                 !.new_employee_id = target_employee_id]
  ELSE m

\* one turn of the loop of get_new_pair_employee_id
get_new_pair_employee_id ==
  /\ menu.pc = "ask"
  /\ \/ /\ menu' = [menu EXCEPT !.pc = "done", !.left = "error",
                                  !.returned = "Err"]
        /\ UNCHANGED handlers
     \/ /\ menu' = [menu EXCEPT !.pc = "update", !.left = "zero",
                                  !.new_employee_id = 0]
        /\ UNCHANGED handlers
     \/ \E target_employee_id \in TargetIds \ {0}, ok \in BOOLEAN :
          LET r == is_valid_employee_id_result(stored_hashes, stored_employees,
                                               db, target_employee_id, ok)
          IN  /\ Enter("is_valid_employee_id", target_employee_id)
              /\ EmployeeRead(r)
              /\ menu' = pair_employee_choice(menu, target_employee_id, r.result)

\* if new_employee_id != 0 { updated_client.change_client_employee_pair(..);
\*                           self.client_handler.update_client(&updated_client)
client_pairing_handler_update ==
  /\ menu.pc = "update"
  /\ IF menu.new_employee_id # 0
     THEN /\ \E ok \in BOOLEAN :
               update_client_call(
                 [menu.client EXCEPT !.asn_employee_id = menu.new_employee_id],
                 ok)
          /\ menu' = [menu EXCEPT !.pc = "updating", !.updates = @ + 1]
     ELSE /\ menu' = [menu EXCEPT !.pc = "done", !.returned = "Ok"]
          /\ UNCHANGED handlers

\* update_client has returned: its result is printed, Ok(())
client_pairing_handler_return ==
  /\ menu.pc = "updating"
  /\ pc = "idle"
  /\ menu' = [menu EXCEPT !.pc = "done", !.returned = "Ok"]
  /\ UNCHANGED handlers

\* Menu::run prints the error, if any, and loops: the workflow is chosen again
Menu_run ==
  /\ menu.pc = "done"
  /\ menu' = MenuStart(db)
  /\ UNCHANGED handlers

(***************************************************************************)
(* Menu: the change-service workflow                                       *)
(***************************************************************************)
\* the inputs ClientServiceChoice::convert_i32 accepts:
\* 0 ReturnMenu, 1 Brokerage, 2 Retirement
ServiceChoices == {0, 1, 2}

\* what get_integer_input can give for a client id
ServiceClientIds == 0..MaxServiceClients

\* change_service_handler has been chosen in Menu::run, over store d;
\* updates counts the update_client calls of the workflow run
ServiceStart(d) ==
  [pc |-> "service_start", client |-> Nil, new_service |-> 0,
   returned |-> "none", updates |-> 0, store |-> d]

\* let client_id = get_integer_input()?;
\* match self.client_handler.get_client(client_id) { .. Err(e) => Err(e) }
customer_choice_handler_get_client ==
  /\ menu.pc = "service_start"
  /\ \/ /\ menu' = [menu EXCEPT !.pc = "done", !.returned = "Err"]
        /\ UNCHANGED handlers
     \/ \E client_id \in ServiceClientIds :
          /\ Enter("get_client", client_id)
          /\ ClientRead(get_client_result(local_avl_tree, client_id))
          /\ menu' = IF get_client(client_id).err # "none"
                     THEN [menu EXCEPT !.pc = "done", !.returned = "Err"]
                     ELSE [menu EXCEPT !.pc = "service",
                                       !.client = get_client(client_id).rec]

\* let new_service = self.select_valid_service()?; the loop is left by an
\* input error or by a choice that convert_i32 accepts
select_valid_service ==
  /\ menu.pc = "service"
  /\ \/ menu' = [menu EXCEPT !.pc = "done", !.returned = "Err"]
     \/ \E service_choice \in ServiceChoices :
          menu' = [menu EXCEPT !.pc = "service_update",
                               !.new_service = service_choice]
  /\ UNCHANGED handlers

\* if new_service != ClientServiceChoice::ReturnMenu {
\*   let mut updated_client = client.clone();
\*   updated_client.change_client_service(new_service as i32);
\*   self.client_handler.update_client(&updated_client)
customer_choice_handler_update ==
  /\ menu.pc = "service_update"
  /\ IF menu.new_service # 0
     THEN /\ \E ok \in BOOLEAN :
               update_client_call(
                 [menu.client EXCEPT !.client_service = menu.new_service], ok)
          /\ menu' = [menu EXCEPT !.pc = "service_updating", !.updates = @ + 1]
     ELSE /\ menu' = [menu EXCEPT !.pc = "done", !.returned = "Ok"]
          /\ UNCHANGED handlers

\* update_client has returned: ? hands its error on, otherwise Ok(())
customer_choice_handler_return ==
  /\ menu.pc = "service_updating"
  /\ pc = "idle"
  /\ menu' = [menu EXCEPT !.pc = "done",
                          !.returned = IF result = Ok THEN "Ok" ELSE "Err"]
  /\ UNCHANGED handlers

\* Menu::run prints the error, if any, and loops: ChangeServiceChoice is
\* chosen
Menu_run_change_service ==
  /\ menu.pc = "done"
  /\ menu' = ServiceStart(db)
  /\ UNCHANGED handlers

Next ==
  \/ new_client
  \/ update_client
  \/ remove_client
  \/ add_new_employee
  \/ modify_employee
  \/ delete_employee

Spec == Init /\ [][Next]_vars

(***************************************************************************)
(* Vocabulary of the properties                                            *)
(***************************************************************************)
MutatingCalls ==
  {"new_client", "update_client", "remove_client",
   "new_employee", "update_employee", "remove_employee"}

Finalizers == {"commit_transaction", "rollback_transaction"}

\* the handler operation has returned
Finished == pc = "idle" /\ op # "none"

CallIdx(name) == {i \in DOMAIN calls : calls[i].call = name}
Issued(name) == CallIdx(name) # {}
Succeeded(name) == \E i \in CallIdx(name) : calls[i].ok
Failed(name) == \E i \in CallIdx(name) : ~calls[i].ok
BeginOk == calls # <<>> /\ calls[1] = Call("begin_transaction", TRUE)
RemoteIdx == {i \in DOMAIN calls : calls[i].call \in MutatingCalls}
RemoteFailed == \E i \in RemoteIdx : ~calls[i].ok
RemoteOk == \E i \in RemoteIdx : calls[i].ok
LastCall == calls[Len(calls)]

LocalState ==
  <<local_avl_tree, employee_client_pairs, stored_hashes, stored_employees>>
PreLocal == <<pre.tree, pre.pairs, pre.hashes, pre.employees>>

ClientOps == {"new_client", "update_client", "remove_client"}
EmployeeOps == {"add_new_employee", "modify_employee", "delete_employee"}

\* the local structures the operation is meant to leave behind, from the
\* structures it was called on
IntendedClientLocal ==
  CASE op = "new_client" -> new_client_local(pre.tree, pre.pairs, arg)
    [] op = "remove_client" -> remove_client_local(pre.tree, pre.pairs, arg)
    [] op = "update_client" ->
         IF find(pre.tree, arg.client_id).err # "none"
         THEN [err |-> "NotFoundError", tree |-> pre.tree, pairs |-> pre.pairs]
         ELSE update_client_local(pre.tree, pre.pairs, arg,
                                  find(pre.tree, arg.client_id).rec.asn_employee_id)

LocalReflectsMutation ==
  CASE op \in ClientOps ->
         /\ IntendedClientLocal.err = "none"
         /\ Records(local_avl_tree) = Records(IntendedClientLocal.tree)
         /\ employee_client_pairs = IntendedClientLocal.pairs
         /\ <<stored_hashes, stored_employees>> = <<pre.hashes, pre.employees>>
    [] op \in {"add_new_employee", "modify_employee"} ->
         /\ stored_hashes = MapInsert(pre.hashes, arg.employee_id, arg.hashed_password)
         /\ stored_employees = MapInsert(pre.employees, arg.employee_id, arg)
         /\ <<local_avl_tree, employee_client_pairs>> = <<pre.tree, pre.pairs>>
    [] op = "delete_employee" ->
         /\ stored_hashes = MapRemove(pre.hashes, arg)
         /\ stored_employees = MapRemove(pre.employees, arg)
         /\ <<local_avl_tree, employee_client_pairs>> = <<pre.tree, pre.pairs>>

StoreReflectsMutation ==
  CASE op = "new_client" ->
         \E id \in FreshIds(pre.db.clients, ClientIds) : db = DbNewClient(pre.db, arg, id)
    [] op = "update_client" -> db = DbUpdateClient(pre.db, arg)
    [] op = "remove_client" -> db = DbRemoveClient(pre.db, arg)
    [] op = "add_new_employee" ->
         \E id \in FreshIds(pre.db.employees, EmployeeIds) : db = DbNewEmployee(pre.db, arg, id)
    [] op = "modify_employee" -> db = DbUpdateEmployee(pre.db, arg)
    [] op = "delete_employee" -> db = DbRemoveEmployee(pre.db, arg)

\* the first error the operation ran into, read off its store calls
FirstFailedCall ==
  LET bad == {i \in DOMAIN calls :
                ~calls[i].ok /\ calls[i].call # "rollback_transaction"}
  IN  calls[CHOOSE i \in bad : \A j \in bad : i <= j].call

AnyCallFailed ==
  \E i \in DOMAIN calls : ~calls[i].ok /\ calls[i].call # "rollback_transaction"

(***************************************************************************)
(* C1 .. C10 : the transaction protocol of the handler write operations    *)
(***************************************************************************)

\* C1: when a write operation of either handler has returned, either both
\* the local structures and the committed store reflect its mutation, or
\* both are as they were when it was called.
C1_CacheStoreAtomic ==
  Finished =>
    \/ LocalReflectsMutation /\ StoreReflectsMutation
    \/ LocalState = PreLocal /\ db = pre.db

\* the error the operation has to return: that of the first store call
\* that failed, else that of its local statements
FirstError ==
  IF AnyCallFailed
  THEN StoreError(FirstFailedCall)
  ELSE LocalError(IntendedClientLocal.err)

Count(name) == Cardinality(CallIdx(name))

\* C2: when the remote mutation call of a write operation fails, the
\* operation returns that error and the tree, the group index, the stored
\* hashes and the stored employees are exactly as they were before the call;
\* get_client after a failed update_client returns the pre-update record.
C2_RemoteFailureLeavesLocal ==
  (Finished /\ RemoteFailed) =>
    /\ result = StoreError(FirstFailedCall)
    /\ result.from \in MutatingCalls
    /\ LocalState = PreLocal
    /\ op = "update_client" =>
         get_client(arg.client_id) = find(pre.tree, arg.client_id)

C2_Witness ==
  /\ Finished /\ RemoteFailed
  /\ op = "update_client"
  /\ get_client(arg.client_id).err = "none"
  /\ get_client(arg.client_id).rec # arg

\* C3: when the guard is dropped while pending without commit having been
\* called, rollback_transaction is issued exactly once, it is the last store
\* call of the operation, commit_transaction is never issued, and the
\* operation returns the first error it ran into.
C3_PendingDropRollsBack ==
  (Finished /\ BeginOk /\ ~Issued("commit_transaction")) =>
    /\ Count("rollback_transaction") = 1
    /\ LastCall.call = "rollback_transaction"
    /\ result # Ok
    /\ result = FirstError

C3_Witness ==
  /\ Finished /\ BeginOk /\ ~Issued("commit_transaction")
  /\ op = "new_client"
  /\ result = LocalError("DuplicateKeyError")
  /\ Issued("rollback_transaction")

\* C4 as claimed: after a failed commit_transaction the failure is returned
\* and no rollback_transaction is issued.
C4_NoRollbackAfterFailedCommit ==
  (Finished /\ Failed("commit_transaction")) =>
    /\ result = StoreError("commit_transaction")
    /\ ~Issued("rollback_transaction")

\* C4 (amended): after a failed commit_transaction the failure is returned
\* to the caller, and the drop of the consumed guard, whose completed flag
\* is still false, issues rollback_transaction exactly once, right after the
\* failed commit, as the last store call of the operation.
C4_FailedCommitIsRolledBack ==
  (Finished /\ Failed("commit_transaction")) =>
    /\ result = StoreError("commit_transaction")
    /\ Count("commit_transaction") = 1
    /\ Count("rollback_transaction") = 1
    /\ LastCall.call = "rollback_transaction"
    /\ calls[Len(calls) - 1] = Call("commit_transaction", FALSE)

C4_Witness ==
  /\ Finished /\ Failed("commit_transaction")
  /\ op = "modify_employee"
  /\ Succeeded("rollback_transaction")

\* C5: once commit_transaction has succeeded no rollback_transaction is
\* issued, and every transaction that was begun is finalized by exactly one
\* of a successful commit or a rollback.
C5_CommittedIsTerminal ==
  /\ Succeeded("commit_transaction") => ~Issued("rollback_transaction")
  /\ Count("rollback_transaction") <= 1
  /\ Count("commit_transaction") <= 1
  /\ (Finished /\ BeginOk) =>
       (Succeeded("commit_transaction") <=> ~Issued("rollback_transaction"))

C5_Witness ==
  /\ Finished /\ Succeeded("commit_transaction")
  /\ op = "remove_client"
  /\ result = Ok

\* C6: when begin_transaction fails the operation returns that error, no
\* guard exists, begin_transaction is its only store call, and the local
\* structures and the store are unchanged.
C6_BeginFailure ==
  (Finished /\ Failed("begin_transaction")) =>
    /\ calls = <<Call("begin_transaction", FALSE)>>
    /\ result = StoreError("begin_transaction")
    /\ ~transaction.live
    /\ LocalState = PreLocal
    /\ db = pre.db

C6_Witness ==
  /\ Finished /\ Failed("begin_transaction")
  /\ op = "add_new_employee"
  /\ Len(calls) = 1

\* C7: when the rollback_transaction issued by the drop fails, the
\* operation still returns the error that triggered the drop, never the
\* rollback's error and never Ok.
C7_RollbackFailureSwallowed ==
  (Finished /\ Failed("rollback_transaction")) =>
    /\ result # Ok
    /\ result.from # "rollback_transaction"
    /\ result = FirstError

C7_Witness ==
  /\ Finished /\ Failed("rollback_transaction")
  /\ RemoteFailed
  /\ op = "delete_employee"

\* this step issues begin_transaction
BeginIssued ==
  /\ nops' = nops + 1
  /\ calls' # <<>>
  /\ calls'[1].call = "begin_transaction"

\* this step issues a mutating store call
RemoteIssued ==
  /\ Len(calls') = Len(calls) + 1
  /\ calls'[Len(calls')].call \in MutatingCalls

\* C8: begin_transaction is never issued while the guard of an earlier
\* transaction is still pending: when it is issued no guard is live, and if
\* the previous operation had begun a transaction, a commit_transaction or
\* rollback_transaction call was issued for it after its begin.
C8_OneOpenTransaction ==
  [][BeginIssued =>
       /\ ~transaction.live
       /\ BeginOk => \E i \in 2..Len(calls) : calls[i].call \in Finalizers]_vars

C8_Witness ==
  /\ nops = 2
  /\ transaction.live
  /\ pc = "remote"
  /\ 0 \in Keys(pre.tree)

\* C9: every mutating store call is issued while the guard opened by the
\* same operation is pending: after that operation's successful
\* begin_transaction and before any commit_transaction or
\* rollback_transaction.
C9_MutationInsideTransaction ==
  [][RemoteIssued =>
       /\ transaction.live
       /\ ~transaction.completed
       /\ BeginOk
       /\ \A i \in 2..Len(calls) :
            calls[i].call \notin Finalizers \cup {"begin_transaction"}]_vars

C9_Witness ==
  /\ pc = "local"
  /\ op = "modify_employee"
  /\ LastCall = Call("update_employee", TRUE)
  /\ transaction.live

\* C10 as claimed: in every write operation the local structures change
\* only after the remote mutation succeeded and before commit_transaction
\* is issued, so an operation whose commit failed returns the error with
\* the local structures holding the mutated state.
C10_LocalBeforeCommit ==
  [][/\ LocalState' # LocalState => RemoteOk /\ ~Issued("commit_transaction")
     /\ (Finished /\ Failed("commit_transaction"))' =>
          (result = StoreError("commit_transaction") /\ LocalReflectsMutation)']_vars

\* C10 (amended): in every write operation except update_client the local
\* structures change only after the remote mutation succeeded and before
\* commit_transaction is issued, so when commit fails these operations
\* return the error with the local structures holding the mutated state;
\* update_client changes the local structures only after commit_transaction
\* succeeded and its guard is gone, so when its commit fails it returns the
\* error with the local structures unchanged.
C10_LocalMutationOrder ==
  /\ [][LocalState' # LocalState =>
          IF op = "update_client"
          THEN Succeeded("commit_transaction") /\ ~transaction.live
          ELSE RemoteOk /\ ~Issued("commit_transaction") /\ transaction.live]_vars
  /\ []((Finished /\ Failed("commit_transaction")) =>
          /\ result = StoreError("commit_transaction")
          /\ IF op = "update_client"
             THEN LocalState = PreLocal
             ELSE LocalReflectsMutation)

C10_Witness ==
  /\ Finished /\ Failed("commit_transaction")
  /\ op = "new_client"
  /\ LocalState # PreLocal

(***************************************************************************)
(* C11 .. C15 : the tree and the group index under sequences of client     *)
(* operations                                                              *)
(***************************************************************************)
InitIndex ==
  /\ HandlersNew
  /\ budget = MaxClientOps

NextIndex ==
  \/ new_client
  \/ update_client
  \/ remove_client

SpecIndex == InitIndex /\ [][NextIndex]_vars

\* how often id occurs in the sequence list
Occurrences(list, id) == Cardinality({i \in DOMAIN list : list[i] = id})

\* the ids of the group of employee_id in the group index p
Members(p, employee_id) ==
  IF employee_id \in DOMAIN p
  THEN {p[employee_id][i] : i \in DOMAIN p[employee_id]}
  ELSE {}

\* the ids the store assigned during the operation
AssignedIds == (DOMAIN db.clients) \ (DOMAIN pre.db.clients)

\* the assigned employee of the record cached when the operation was called
OldGroup == find(pre.tree, arg.client_id).rec.asn_employee_id

\* C11: after a successful new_client of a record with the placeholder id 0,
\* get_client(assigned id) returns the record with the fields given at
\* creation and get_clients_for_employee(its assigned employee) contains the
\* assigned id.
C11_AssignedIdCopiedBack ==
  (Finished /\ op = "new_client" /\ result = Ok /\ arg.client_id = 0) =>
    \A id \in AssignedIds :
      /\ get_client(id) = [err |-> "none", rec |-> [arg EXCEPT !.client_id = id]]
      /\ get_clients_for_employee(arg.asn_employee_id).some
      /\ id \in Members(employee_client_pairs, arg.asn_employee_id)

\* C12: after a successful update_client that changes the assigned employee
\* from a (that of the cached record) to b # a, the id is not in group a,
\* group a is absent if the id was its only member, and the id is in group b
\* exactly once.
C12_Repointed ==
  (Finished /\ op = "update_client" /\ result = Ok
     /\ OldGroup # arg.asn_employee_id) =>
    /\ arg.client_id \notin Members(employee_client_pairs, OldGroup)
    /\ Members(pre.pairs, OldGroup) \subseteq {arg.client_id} =>
         ~get_clients_for_employee(OldGroup).some
    /\ get_clients_for_employee(arg.asn_employee_id).some
    /\ Occurrences(get_clients_for_employee(arg.asn_employee_id).list,
                   arg.client_id) = 1

\* C13: in every reachable state each id of the tree occurs in exactly one
\* group, exactly once, the group of the assigned employee of its cached
\* record, and no id that is not in the tree occurs in any group.
C13_GroupIndexInvariant ==
  /\ \A id \in Keys(local_avl_tree) :
       /\ get_clients_for_employee(get_client(id).rec.asn_employee_id).some
       /\ \A e \in DOMAIN employee_client_pairs :
            Occurrences(employee_client_pairs[e], id) =
              IF e = get_client(id).rec.asn_employee_id THEN 1 ELSE 0
  /\ \A e \in DOMAIN employee_client_pairs :
       Members(employee_client_pairs, e) \subseteq Keys(local_avl_tree)

\* the group an operation takes the id out of
RetainedGroup ==
  IF op = "remove_client" THEN arg.asn_employee_id ELSE OldGroup

\* the operation took the last member out of a group
LastMemberLeft ==
  /\ Finished /\ result = Ok
  /\ op \in {"remove_client", "update_client"}
  /\ op = "update_client" => OldGroup # arg.asn_employee_id
  /\ Members(pre.pairs, RetainedGroup) = {arg.client_id}

C15_RemovedFromBoth ==
  (Finished /\ op = "remove_client" /\ result = Ok
     /\ arg.client_id \in Keys(pre.tree)) =>
    /\ get_client(arg.client_id).err = "NotFoundError"
    /\ \A e \in DOMAIN employee_client_pairs :
         arg.client_id \notin Members(employee_client_pairs, e)

(***************************************************************************)
(* C16 .. C18 : the read operations, between the write operations of the   *)
(* EmployeeHandler                                                         *)
(***************************************************************************)
InitReads ==
  /\ HandlersNew
  /\ budget = MaxReadOps

NextReads ==
  \/ get_employee_hash
  \/ get_employee
  \/ is_valid_employee_id
  \/ get_client_read
  \/ get_clients_for_employee_read
  \/ add_new_employee
  \/ modify_employee
  \/ delete_employee

SpecReads == InitReads /\ [][NextReads]_vars

ReadOps ==
  {"get_client", "get_clients_for_employee", "get_employee",
   "get_employee_hash", "is_valid_employee_id"}

TransactionCalls ==
  {"begin_transaction", "commit_transaction", "rollback_transaction"}

\* the cache the read looks into held its id when it was called
CacheHit ==
  CASE op = "get_client" -> arg \in Keys(pre.tree)
    [] op = "get_clients_for_employee" -> arg \in DOMAIN pre.pairs
    [] op \in {"get_employee", "is_valid_employee_id"} ->
         arg \in DOMAIN pre.employees
    [] op = "get_employee_hash" -> arg \in DOMAIN pre.hashes

\* C16: a read operation issues no begin_transaction, commit_transaction or
\* rollback_transaction and opens no guard, and a read that hits the cache
\* issues no store call at all.
C16_ReadsOpenNoTransaction ==
  (Finished /\ op \in ReadOps) =>
    /\ \A i \in DOMAIN calls : calls[i].call \notin TransactionCalls
    /\ ~transaction.live
    /\ db = pre.db
    /\ CacheHit => calls = <<>>

C16_Witness ==
  /\ Finished /\ op = "get_employee"
  /\ CacheHit
  /\ result = Value(Some(pre.employees[arg]))

\* the read-through operations the claim names
GetOps == {"get_client", "get_employee", "get_employee_hash"}

\* the store holds the record the read asked for
StoreHolds ==
  IF op = "get_client"
  THEN arg \in DOMAIN pre.db.clients
  ELSE arg \in DOMAIN pre.db.employees

\* the cache the read looks into holds what the store holds for its id
CachePopulated ==
  CASE op = "get_client" ->
         get_client(arg) = [err |-> "none", rec |-> pre.db.clients[arg]]
    [] op = "get_employee" ->
         /\ arg \in DOMAIN stored_employees
         /\ stored_employees[arg] = pre.db.employees[arg]
         /\ arg \in DOMAIN stored_hashes
         /\ stored_hashes[arg] = pre.db.employees[arg].hashed_password
    [] op = "get_employee_hash" ->
         /\ arg \in DOMAIN stored_hashes
         /\ stored_hashes[arg] = pre.db.employees[arg].hashed_password

\* the record (or hash) of the store that the read has to return
StoreValue ==
  IF op = "get_employee"
  THEN pre.db.employees[arg]
  ELSE pre.db.employees[arg].hashed_password

\* this step calls again the read that has just returned, with the same id
SameReadAgain ==
  /\ Finished
  /\ nops' = nops + 1
  /\ op' = op
  /\ arg' = arg

\* the read that has just returned missed the cache and fetched the record
FetchedOnMiss ==
  /\ Finished /\ op \in GetOps
  /\ ~CacheHit
  /\ Len(calls) = 1 /\ calls[1].ok
  /\ StoreHolds

\* C17 as claimed: for get_client, get_employee and get_employee_hash a
\* cache miss triggers exactly one store call and, when the store holds the
\* record, the cache is populated before the read returns, so that the same
\* read repeated at once issues no store call.
C17_EveryGetReadsThrough ==
  /\ []((Finished /\ op \in GetOps /\ ~CacheHit) =>
          /\ Len(calls) = 1
          /\ (calls[1].ok /\ StoreHolds) => CachePopulated)
  /\ [][(FetchedOnMiss /\ SameReadAgain) => calls' = <<>>]_vars

\* C17 (amended): for get_employee and get_employee_hash a cache miss
\* triggers exactly one store call, of the same name, and when it succeeds
\* and the store holds the record the read returns it with the cache
\* populated, so that the same read repeated at once issues no store call
\* and returns the same value; get_client never calls the store: a miss of
\* the tree returns the not-found error.
C17_EmployeeGetsReadThrough ==
  /\ []((Finished /\ op \in {"get_employee", "get_employee_hash"}
            /\ ~CacheHit) =>
          /\ Len(calls) = 1
          /\ calls[1].call = op
          /\ (calls[1].ok /\ StoreHolds) =>
               (CachePopulated /\ result = Value(Some(StoreValue))))
  /\ []((Finished /\ op = "get_client") =>
          /\ calls = <<>>
          /\ ~CacheHit => result = LocalError("NotFoundError"))
  /\ [][(FetchedOnMiss /\ SameReadAgain) =>
          (calls' = <<>> /\ result' = result)]_vars

C17_Witness ==
  /\ Finished /\ op = "get_employee_hash"
  /\ calls = <<>>
  /\ pre.hashes # EmptyMap
  /\ pre.employees = EmptyMap
  /\ nops = 2

\* C18: is_valid_employee_id(id) returns Ok(true) exactly when the id is in
\* stored_employees or, on a miss, the store's get_employee succeeds and the
\* store holds the employee; it returns Ok(false) exactly when the store
\* call succeeds and finds nothing, and the error when the store call fails.
C18_ValidIffGetReturnsRecord ==
  (Finished /\ op = "is_valid_employee_id") =>
    /\ result = Value(TRUE) <=>
         \/ CacheHit
         \/ calls = <<Call("get_employee", TRUE)>> /\ StoreHolds
    /\ result = Value(FALSE) <=>
         /\ ~CacheHit
         /\ calls = <<Call("get_employee", TRUE)>> /\ ~StoreHolds
    /\ result = StoreError("get_employee") <=>
         /\ ~CacheHit
         /\ calls = <<Call("get_employee", FALSE)>>
    /\ result \in {Value(TRUE), Value(FALSE), StoreError("get_employee")}

C18_Witness ==
  /\ Finished /\ op = "is_valid_employee_id"
  /\ result = Value(TRUE)
  /\ ~CacheHit
  /\ arg \in DOMAIN stored_employees

(***************************************************************************)
(* C19 : construction of the ClientHandler                                 *)
(***************************************************************************)
\* the ids of the store's clients assigned to employee e
AssignedTo(e) ==
  {i \in DOMAIN db.clients : db.clients[i].asn_employee_id = e}

\* C19: if get_clients fails ClientHandler::new fails with that error and
\* has loaded nothing; if it succeeds the construction succeeds, the tree
\* holds exactly the clients of the store and the group index maps each
\* employee that has clients, and no other, to exactly the ids of the
\* clients assigned to it, each once.
C19_EagerLoad ==
  /\ (op = "ClientHandler::new" /\ Failed("get_clients")) =>
       /\ pc = "failed"
       /\ result = StoreError("get_clients")
       /\ local_avl_tree = Nil
       /\ employee_client_pairs = EmptyMap
  /\ (op = "ClientHandler::new" /\ Succeeded("get_clients")) =>
       pc \in {"for", "idle"}
  /\ (op = "ClientHandler::new" /\ pc = "idle") =>
       /\ result = Ok
       /\ Keys(local_avl_tree) = DOMAIN db.clients
       /\ Records(local_avl_tree) = {db.clients[i] : i \in DOMAIN db.clients}
       /\ DOMAIN employee_client_pairs =
            {db.clients[i].asn_employee_id : i \in DOMAIN db.clients}
       /\ \A e \in DOMAIN employee_client_pairs :
            /\ Members(employee_client_pairs, e) = AssignedTo(e)
            /\ Len(employee_client_pairs[e]) = Cardinality(AssignedTo(e))

C19_Witness ==
  /\ op = "ClientHandler::new" /\ pc = "idle"
  /\ Cardinality(DOMAIN employee_client_pairs) = 2
  /\ Cardinality(Keys(local_avl_tree)) = 3
  /\ \E e \in DOMAIN employee_client_pairs : employee_client_pairs[e] = <<3, 1>>

(***************************************************************************)
(* C20 : Menu::client_pairing_handler                                      *)
(***************************************************************************)
\* the stores the Menu runs over: any employees among the ids that can be
\* entered, without clients or with one client of employee 1
PairingStores ==
  {[clients |-> c,
    employees |-> [i \in E |-> [SeedEmployee EXCEPT !.employee_id = i]]] :
     c \in {EmptyMap}, E \in SUBSET (TargetIds \ {0})}
  \cup
  {[clients |-> MapInsert(EmptyMap, 1, SeedClient),
    employees |-> [i \in E |-> [SeedEmployee EXCEPT !.employee_id = i]]] :
     E \in {F \in SUBSET (TargetIds \ {0}) : 1 \in F}}

InitPairing ==
  /\ db \in PairingStores
  /\ work = db
  /\ local_avl_tree = ClientHandlerNew(db).tree
  /\ employee_client_pairs = ClientHandlerNew(db).pairs
  /\ stored_hashes = EmptyMap
  /\ stored_employees = EmptyMap
  /\ transaction = NoTransaction
  /\ pc = "idle"
  /\ op = "none"
  /\ arg = 0
  /\ old_employee_id = 0
  /\ result = Ok
  /\ calls = <<>>
  /\ pre = Snapshot
  /\ nops = 0
  /\ budget = MaxMenuCalls
  /\ menu = MenuStart(db)

NextPairing ==
  \/ client_pairing_handler_get_client
  \/ get_new_pair_employee_id
  \/ client_pairing_handler_update
  \/ update_client_steps
  \/ client_pairing_handler_return
  \/ Menu_run

SpecPairing == InitPairing /\ [][NextPairing]_vars

\* this step calls update_client
UpdateCalled ==
  /\ nops' = nops + 1
  /\ op' = "update_client"

\* C20: in client_pairing_handler update_client is called with assigned
\* employee e only right after is_valid_employee_id(e) returned Ok(true) in
\* the same workflow run, for the client the run looked up; a run that was
\* left by entering 0 or by a validation error has called update_client not
\* once and has not changed the store, which changes only inside the
\* update_client the workflow called.
C20_UpdateOnlyAfterValidation ==
  /\ [][UpdateCalled =>
          /\ op = "is_valid_employee_id"
          /\ result = Value(TRUE)
          /\ arg = arg'.asn_employee_id
          /\ arg # 0
          /\ menu.left = "valid"
          /\ arg'.client_id = menu.client.client_id]_vars
  /\ [][db' # db => (menu.pc = "updating" /\ op = "update_client")]_vars
  /\ []((menu.pc = "done" /\ menu.left \in {"zero", "error"}) =>
          /\ menu.updates = 0
          /\ op # "update_client"
          /\ db = menu.store)

C20_Witness ==
  /\ menu.pc = "done"
  /\ menu.updates = 1
  /\ result = Ok /\ op = "update_client"
  /\ arg.asn_employee_id = 2
  /\ db # menu.store
  /\ get_clients_for_employee(2).list = <<1>>

(***************************************************************************)
(* AVLTree<Client> on its own: insert, remove and find called with any     *)
(* argument, in any order, on the tree AVLTree::new() returns              *)
(***************************************************************************)
TreeKeys == 1..MaxTreeKey
TreeNames == {"Ana", "Bob"}

\* the records the tree is called with: two records for every key
TreeRecords ==
  [client_id : TreeKeys, client_name : TreeNames,
   client_service : {SeedClient.client_service},
   asn_employee_id : {SeedClient.asn_employee_id}]

\* the tree when the last call was made; before_insert is the tree before
\* the insert of key k when the last two calls were a successful
\* insert of k and then remove(k)
TreeSnapshot(o, a) ==
  [tree |-> local_avl_tree,
   before_insert |->
     IF o = "remove" /\ op = "insert" /\ result = Ok /\ get_key(arg) = a
     THEN Some(pre.tree)
     ELSE None]

\* AVLTree::new()
InitTree ==
  /\ local_avl_tree = Nil
  /\ employee_client_pairs = EmptyMap
  /\ stored_hashes = EmptyMap
  /\ stored_employees = EmptyMap
  /\ db = [clients |-> EmptyMap, employees |-> EmptyMap]
  /\ work = db
  /\ transaction = NoTransaction
  /\ pc = "idle"
  /\ op = "none"
  /\ arg = 0
  /\ old_employee_id = 0
  /\ result = Ok
  /\ calls = <<>>
  /\ pre = [tree |-> Nil, before_insert |-> None]
  /\ nops = 0
  /\ budget = 0
  /\ menu = NoMenu

\* what a call of the tree leaves alone
TreeFrame ==
  UNCHANGED <<employee_client_pairs, employeeLocal, db, work, transaction, pc,
              old_employee_id, calls, nops, budget, menu>>

\* local_avl_tree.insert(rec)
AVLTree_insert_call(rec) ==
  LET r == insert(local_avl_tree, rec)
  IN  /\ op' = "insert"
      /\ arg' = rec
      /\ pre' = TreeSnapshot("insert", rec)
      /\ local_avl_tree' = r.tree
      /\ result' = IF r.err = "none" THEN Ok ELSE LocalError(r.err)
      /\ TreeFrame

AVLTree_insert == \E rec \in TreeRecords : AVLTree_insert_call(rec)

\* local_avl_tree.remove(key)
AVLTree_remove ==
  \E key \in TreeKeys :
    LET r == remove(local_avl_tree, key)
    IN  /\ op' = "remove"
        /\ arg' = key
        /\ pre' = TreeSnapshot("remove", key)
        /\ local_avl_tree' = r.tree
        /\ result' = IF r.err = "none" THEN Ok ELSE LocalError(r.err)
        /\ TreeFrame

\* local_avl_tree.find(key) : &self
AVLTree_find ==
  \E key \in TreeKeys :
    LET r == find(local_avl_tree, key)
    IN  /\ op' = "find"
        /\ arg' = key
        /\ pre' = TreeSnapshot("find", key)
        /\ result' = IF r.err = "none" THEN Value(r.rec) ELSE LocalError(r.err)
        /\ UNCHANGED local_avl_tree
        /\ TreeFrame

NextTree ==
  \/ AVLTree_insert
  \/ AVLTree_remove
  \/ AVLTree_find

SpecTree == InitTree /\ [][NextTree]_vars

\* the tree under inserts only, one record for every key
InsertRecords ==
  [client_id : 1..MaxInsertKey, client_name : {SeedClient.client_name},
   client_service : {SeedClient.client_service},
   asn_employee_id : {SeedClient.asn_employee_id}]

NextInserts == \E rec \in InsertRecords : AVLTree_insert_call(rec)

SpecInserts == InitTree /\ [][NextInserts]_vars

(***************************************************************************)
(* C21 - C27 : the AVL tree                                                *)
(***************************************************************************)
StrictlyIncreasing(seq) == \A i \in 1..(Len(seq) - 1) : seq[i] < seq[i + 1]

\* the height of a subtree, counted on its nodes
RECURSIVE TrueHeight(_)
TrueHeight(t) ==
  IF t.nil THEN 0 ELSE 1 + Max(TrueHeight(t.left), TrueHeight(t.right))

\* every node of a tree, as the subtree it is the root of
RECURSIVE Nodes(_)
Nodes(t) == IF t.nil THEN {} ELSE {t} \cup Nodes(t.left) \cup Nodes(t.right)

Ordered(t) == StrictlyIncreasing(InOrder(t))

Balanced(t) ==
  \A n \in Nodes(t) : TrueHeight(n.left) - TrueHeight(n.right) \in {-1, 0, 1}

HeightsCached(t) == \A n \in Nodes(t) : n.height = TrueHeight(n)

TreeCalled(o) == op = o /\ pc = "idle"
TreeOk(o) == TreeCalled(o) /\ result = Ok

\* C21: after any sequence of insert and remove calls of the tree,
\* successful or failed, the in-order traversal yields strictly increasing
\* keys (so no key twice).
C21_InOrderStrictlyIncreasing == Ordered(local_avl_tree)

\* a node with two children was removed from a tree of at least four keys
C21_Witness ==
  /\ TreeOk("remove")
  /\ ~Lookup(pre.tree, arg).left.nil
  /\ ~Lookup(pre.tree, arg).right.nil
  /\ Len(InOrder(local_avl_tree)) >= 3
  /\ Ordered(local_avl_tree)

\* C22: after any sequence of insert and remove calls every node's balance
\* factor height(left) - height(right) is in {-1, 0, 1}, on the cached
\* heights and on the true ones, and every cached height is the true height
\* of the node's subtree.
C22_BalancedWithTrueHeights ==
  /\ Balanced(local_avl_tree)
  /\ HeightsCached(local_avl_tree)
  /\ \A n \in Nodes(local_avl_tree) : BalanceFactor(n) \in {-1, 0, 1}

\* a removal made the tree rotate: the root's record changed although the
\* root was not the key removed
C22_Witness ==
  /\ TreeOk("remove")
  /\ arg # get_key(pre.tree.rec)
  /\ get_key(local_avl_tree.rec) # get_key(pre.tree.rec)
  /\ TrueHeight(local_avl_tree) = 3
  /\ Balanced(local_avl_tree)

\* C23: insert of a record whose key the tree holds fails with
\* DuplicateKeyError and leaves the tree as it was: same shape, same
\* records, same cached heights.
C23_DuplicateInsertFails ==
  (TreeCalled("insert") /\ get_key(arg) \in Keys(pre.tree)) =>
    /\ result = LocalError("DuplicateKeyError")
    /\ local_avl_tree = pre.tree

\* the record offered differs from the one the tree holds under its key
C23_Witness ==
  /\ TreeCalled("insert")
  /\ result = LocalError("DuplicateKeyError")
  /\ arg \notin Records(local_avl_tree)
  /\ get_key(arg) \in Keys(local_avl_tree)
  /\ Cardinality(Keys(local_avl_tree)) >= 3

\* C24: remove of a key the tree does not hold fails with NotFoundError and
\* leaves the tree as it was.
C24_AbsentRemoveFails ==
  (TreeCalled("remove") /\ arg \notin Keys(pre.tree)) =>
    /\ result = LocalError("NotFoundError")
    /\ local_avl_tree = pre.tree

C24_Witness ==
  /\ TreeCalled("remove")
  /\ result = LocalError("NotFoundError")
  /\ arg \notin Keys(local_avl_tree)
  /\ \E a \in Keys(local_avl_tree), b \in Keys(local_avl_tree) : a < arg /\ arg < b

\* the last two calls were a successful insert of a key and remove of it
InsertedThenRemoved == TreeCalled("remove") /\ pre.before_insert.some

\* C25: for every reachable tree and every key k not in it, insert of a
\* record with key k followed by remove(k) yields a tree with the key set
\* of before the insert that is balanced and ordered.
C25_InsertThenRemove ==
  /\ InsertedThenRemoved =>
       /\ result = Ok
       /\ Keys(local_avl_tree) = Keys(pre.before_insert.val)
       /\ InOrder(local_avl_tree) = InOrder(pre.before_insert.val)
       /\ Balanced(local_avl_tree)
       /\ HeightsCached(local_avl_tree)
       /\ Ordered(local_avl_tree)
  /\ (TreeCalled("insert") /\ get_key(arg) \notin Keys(pre.tree)) => result = Ok

\* the tree after the two calls has another shape than before them
C25_Witness ==
  /\ InsertedThenRemoved
  /\ result = Ok
  /\ local_avl_tree # pre.before_insert.val
  /\ Keys(local_avl_tree) = Keys(pre.before_insert.val)
  /\ Cardinality(Keys(local_avl_tree)) >= 3

NotFound == [err |-> "NotFoundError", rec |-> Nil]
Found(rec) == [err |-> "none", rec |-> rec]

\* C26: the tree is a map from key to record.  No key is found in the new
\* tree; a successful insert makes find of its key return its record and a
\* successful remove makes find of its key fail with NotFoundError, both
\* leaving find of every other key as it was; a failed call leaves find of
\* every key as it was; find returns what the tree holds and never changes
\* the tree.
C26_FindIsMapLookup ==
  /\ op = "none" => \A k \in TreeKeys : find(local_avl_tree, k) = NotFound
  /\ TreeOk("insert") =>
       \A k \in TreeKeys :
         find(local_avl_tree, k) =
           IF k = get_key(arg) THEN Found(arg) ELSE find(pre.tree, k)
  /\ TreeOk("remove") =>
       \A k \in TreeKeys :
         find(local_avl_tree, k) =
           IF k = arg THEN NotFound ELSE find(pre.tree, k)
  /\ (op \in {"insert", "remove"} /\ result # Ok) =>
       \A k \in TreeKeys : find(local_avl_tree, k) = find(pre.tree, k)
  /\ TreeCalled("find") =>
       /\ local_avl_tree = pre.tree
       /\ result = IF \E rec \in Records(pre.tree) : get_key(rec) = arg
                   THEN Value(CHOOSE rec \in Records(pre.tree) : get_key(rec) = arg)
                   ELSE LocalError("NotFoundError")

\* find returned a record that sits below the root, in a tree holding a
\* record of each name
C26_Witness ==
  /\ TreeCalled("find")
  /\ result.kind = "Ok"
  /\ result.value \in Records(local_avl_tree)
  /\ get_key(local_avl_tree.rec) # arg
  /\ \E a \in Records(local_avl_tree), b \in Records(local_avl_tree) :
       a.client_name # b.client_name

\* ceil(1.44 * log2(n + 2)) for n = 0 .. 12, at index n + 1
HeightBoundTable == <<2, 3, 3, 4, 4, 5, 5, 5, 5, 5, 6, 6, 6>>
HeightBound(n) == HeightBoundTable[n + 1]

\* C27: for all sequences of inserts with unique keys producing a tree of n
\* nodes, the height of the tree and of every node is at most
\* ceil(1.44 * log2(n + 2)), cached or true.
C27_HeightBound ==
  LET n == Cardinality(Nodes(local_avl_tree))
  IN  \A node \in Nodes(local_avl_tree) :
        /\ TrueHeight(node) <= HeightBound(n)
        /\ Height(node) <= HeightBound(n)
        /\ TrueHeight(node) <= HeightBound(Cardinality(Nodes(node)))

\* the insert of the largest key completed the tree of every key and
\* rotated at the root
C27_Witness ==
  /\ TreeOk("insert")
  /\ Cardinality(Nodes(local_avl_tree)) = MaxInsertKey
  /\ get_key(arg) = MaxInsertKey
  /\ get_key(pre.tree.rec) # get_key(local_avl_tree.rec)
  /\ TrueHeight(local_avl_tree) <= HeightBound(MaxInsertKey)

(***************************************************************************)
(* C28, C29 : update_client, checked under SpecIndex                       *)
(***************************************************************************)
Returned(o) == Finished /\ op = o

\* the record the tree held under the id of the argument at the call
CachedRecord == find(pre.tree, arg.client_id).rec

\* C28: after a successful update_client(c) for a client present in the
\* tree, get_client(c.id) returns exactly c, the key set of the tree is
\* the one of before the call, and c has taken the place of the record
\* held before.
C28_UpdateReplacesRecord ==
  (Returned("update_client") /\ result = Ok
     /\ arg.client_id \in Keys(pre.tree)) =>
    /\ get_client(arg.client_id) = [err |-> "none", rec |-> arg]
    /\ Keys(local_avl_tree) = Keys(pre.tree)
    /\ Records(local_avl_tree) = (Records(pre.tree) \ {CachedRecord}) \cup {arg}

\* the update succeeded with a record that differs from the cached one
C28_Witness ==
  /\ Returned("update_client")
  /\ result = Ok
  /\ arg.client_id \in Keys(pre.tree)
  /\ CachedRecord # arg
  /\ get_client(arg.client_id).rec = arg

\* C29: update_client for a client id that is not in the tree returns the
\* not-found error before any store call: no begin_transaction, no remote
\* update, no commit and no rollback is issued, no Transaction is built and
\* tree, group index and store are unchanged.
C29_UpdateOfAbsentClient ==
  (op = "update_client" /\ arg.client_id \notin Keys(pre.tree)) =>
    /\ pc = "idle"
    /\ result = LocalError("NotFoundError")
    /\ calls = <<>>
    /\ transaction = NoTransaction
    /\ local_avl_tree = pre.tree
    /\ employee_client_pairs = pre.pairs
    /\ db = pre.db
    /\ work = db

\* the id is absent from the tree although the store holds a client of it
C29_Witness ==
  /\ Returned("update_client")
  /\ result = LocalError("NotFoundError")
  /\ arg.client_id \notin Keys(local_avl_tree)
  /\ arg.client_id \in DOMAIN db.clients
  /\ calls = <<>>

(***************************************************************************)
(* C30 : update_client that keeps the assigned employee, called by the     *)
(* change-service workflow or directly with any argument                   *)
(***************************************************************************)
\* the stores the Menu may run over: any clients with ids among
\* 1 .. MaxServiceClients, each assigned to some employee
ServiceStores ==
  {d \in NewStores : DOMAIN d.clients \subseteq 1..MaxServiceClients}

InitService ==
  /\ db \in ServiceStores
  /\ work = db
  /\ local_avl_tree = ClientHandlerNew(db).tree
  /\ employee_client_pairs = ClientHandlerNew(db).pairs
  /\ stored_hashes = EmptyMap
  /\ stored_employees = EmptyMap
  /\ transaction = NoTransaction
  /\ pc = "idle"
  /\ op = "none"
  /\ arg = 0
  /\ old_employee_id = 0
  /\ result = Ok
  /\ calls = <<>>
  /\ pre = Snapshot
  /\ nops = 0
  /\ budget = MaxServiceCalls
  /\ menu = ServiceStart(db)

\* the workflow, and between two runs of it update_client called with any
\* argument
NextService ==
  \/ customer_choice_handler_get_client
  \/ select_valid_service
  \/ customer_choice_handler_update
  \/ update_client_steps
  \/ customer_choice_handler_return
  \/ Menu_run_change_service
  \/ /\ menu.pc = "service_start"
     /\ \E client \in Client, ok \in BOOLEAN : update_client_call(client, ok)
     /\ UNCHANGED menu

SpecService == InitService /\ [][NextService]_vars

\* C30: a successful update_client(c) whose assigned-employee id equals that
\* of the cached record leaves the group index as it was (same keys, same
\* sequences in the same order), and every update_client call of the
\* change-service workflow is made with the assigned-employee id of the
\* cached record, so every successful update of the workflow leaves the
\* group index as it was.
C30_SameEmployeeKeepsGroups ==
  /\ []((Returned("update_client") /\ result = Ok
           /\ arg.asn_employee_id = CachedRecord.asn_employee_id) =>
          employee_client_pairs = pre.pairs)
  /\ [][(UpdateCalled /\ menu.pc = "service_update") =>
          /\ get_client(arg'.client_id).err = "none"
          /\ arg'.asn_employee_id
               = get_client(arg'.client_id).rec.asn_employee_id]_vars
  /\ []((menu.pc = "service_updating" /\ Returned("update_client")
           /\ result = Ok) =>
          employee_client_pairs = pre.pairs)

\* the workflow changed the service of a client whose group has another
\* member
C30_Witness ==
  /\ menu.pc = "service_updating"
  /\ Returned("update_client")
  /\ result = Ok
  /\ CachedRecord.client_service # arg.client_service
  /\ get_client(arg.client_id).rec = arg
  /\ Len(employee_client_pairs[arg.asn_employee_id]) >= 2
  /\ employee_client_pairs = pre.pairs

(***************************************************************************)
(* C31, C32 : errors of new_client and remove_client, checked under        *)
(* SpecIndex                                                               *)
(***************************************************************************)
\* new_client's remote call succeeded and the id of its argument was in the
\* tree, so that the insert into the tree failed
NewClientDuplicate ==
  /\ Returned("new_client")
  /\ Succeeded("new_client")
  /\ arg.client_id \in Keys(pre.tree)

\* C31: if new_client's remote call succeeds but the insert into the tree
\* fails because the id of the record is in the tree, new_client returns
\* the duplicate-key error, tree and group index are as before the call,
\* commit_transaction is never issued, the remote transaction is rolled
\* back exactly once and the store keeps its content.
C31_DuplicateAfterRemote ==
  NewClientDuplicate =>
    /\ result = LocalError("DuplicateKeyError")
    /\ local_avl_tree = pre.tree
    /\ employee_client_pairs = pre.pairs
    /\ ~Issued("commit_transaction")
    /\ Count("rollback_transaction") = 1
    /\ LastCall.call = "rollback_transaction"
    /\ db = pre.db

C31_Witness ==
  /\ NewClientDuplicate
  /\ result = LocalError("DuplicateKeyError")
  /\ calls = <<Call("begin_transaction", TRUE), Call("new_client", TRUE),
               Call("rollback_transaction", TRUE)>>

\* remove_client returned an error that is not a commit failure
RemoveClientFailed ==
  /\ Returned("remove_client")
  /\ result # Ok
  /\ ~Issued("commit_transaction")

\* C32: whenever remove_client returns an error other than a commit failure
\* (begin failed, remote delete failed, or the id is not in the tree), tree
\* and group index are as before the call, for every argument.
C32_FailedRemoveLeavesLocal ==
  RemoveClientFailed =>
    /\ local_avl_tree = pre.tree
    /\ employee_client_pairs = pre.pairs

(***************************************************************************)
(* C33 .. C34 : the two caches of the EmployeeHandler                      *)
(***************************************************************************)
\* the hash cache holds, for every cached record, the hash of that record
HashesCoverEmployees ==
  \A id \in DOMAIN stored_employees :
    /\ id \in DOMAIN stored_hashes
    /\ stored_hashes[id] = stored_employees[id].hashed_password

\* C33: between the operations of the EmployeeHandler, whether they
\* succeeded or failed, every id of stored_employees is an id of
\* stored_hashes and stored_hashes[id] is the hash field of
\* stored_employees[id].
C33_CacheInvariant == (pc = "idle") => HashesCoverEmployees

\* a modify_employee whose commit failed has replaced a cached hash and
\* record, and a get_employee that missed has cached both
C33_Witness ==
  /\ Finished /\ op = "modify_employee"
  /\ result = StoreError("commit_transaction")
  /\ arg.employee_id \in DOMAIN pre.hashes
  /\ pre.hashes[arg.employee_id] # arg.hashed_password
  /\ stored_employees[arg.employee_id] = arg

\* the records add_new_employee is called with: Employee::new(0, ..) with
\* the placeholder id as well as a record that carries an id
NewEmployees ==
  [employee_id : {0} \cup EmployeeIds, employee_name : EmployeeNames,
   hashed_password : Hashes]

\* the ids the reads are called with
ReadEmployeeIds == {0} \cup EmployeeIds

\* the step issues no commit_transaction that fails
CommitSucceeds ==
  \/ calls' = calls
  \/ calls'[Len(calls')] # Call("commit_transaction", FALSE)

\* one EmployeeHandler as the only writer of the store, every commit
\* succeeding
NextCache ==
  \/ \E employee_id \in ReadEmployeeIds, ok \in BOOLEAN :
       /\ Enter("get_employee_hash", employee_id)
       /\ EmployeeRead(get_employee_hash_result(stored_hashes, stored_employees,
                                                db, employee_id, ok))
       /\ UNCHANGED menu
  \/ \E employee_id \in ReadEmployeeIds, ok \in BOOLEAN :
       /\ Enter("get_employee", employee_id)
       /\ EmployeeRead(get_employee_result(stored_hashes, stored_employees,
                                           db, employee_id, ok))
       /\ UNCHANGED menu
  \/ \E employee \in NewEmployees, ok \in BOOLEAN :
       add_new_employee_call(employee, ok)
  \/ add_new_employee_steps /\ CommitSucceeds
  \/ modify_employee /\ CommitSucceeds
  \/ delete_employee /\ CommitSucceeds

SpecCache == InitReads /\ [][NextCache]_vars

\* what the store holds for the id the read was called with
StoreHoldsNow ==
  IF arg \notin DOMAIN db.employees THEN None
  ELSE IF op = "get_employee" THEN Some(db.employees[arg])
  ELSE Some(db.employees[arg].hashed_password)

\* C34: with one EmployeeHandler as the only writer and every commit
\* succeeding, each value returned by get_employee(id) or
\* get_employee_hash(id) equals what the store currently holds for id;
\* after delete_employee(id) no cache holds id, so that a later read
\* consults the store; and a lookup that found nothing leaves id out of
\* the caches.
C34_ReadsAgreeWithStore ==
  /\ (Finished /\ op \in {"get_employee", "get_employee_hash"}
        /\ result.kind = "Ok") =>
       result = Value(StoreHoldsNow)
  /\ (Finished /\ op = "delete_employee" /\ result = Ok) =>
       /\ arg \notin DOMAIN stored_hashes
       /\ arg \notin DOMAIN stored_employees
  /\ (Finished /\ op \in {"get_employee", "get_employee_hash"}
        /\ result = Value(None)) =>
       /\ arg \notin DOMAIN stored_hashes
       /\ arg \notin DOMAIN stored_employees

(***************************************************************************)
(* login_handler and Authenticator (auth.rs).  The workflow variable menu  *)
(* holds the Authenticator and the history of the authenticate calls.      *)
(***************************************************************************)
\* Authenticator::new : max_attempts: 5
max_attempts == 5

\* what get_integer_input can give for an employee id
LoginIds == 0..MaxEmployeeId
\* what get_string_input can give for a password
Passwords == {"p1", "p2"}
\* the encoded hash a password verifies against
Encoded == [p \in Passwords |-> IF p = "p1" THEN "h1" ELSE "h2"]
\* argon2::verify_encoded(&stored_hash, password.as_bytes()).unwrap_or(false)
verify_encoded(stored_hash, password) == stored_hash = Encoded[password]

InputError == [kind |-> "IoError", from |-> "input"]
ProcessExit == [kind |-> "ProcessExit", from |-> "authenticate"]

\* login_handler after EmployeeHandler::new and Authenticator::new;
\* authenticate_calls counts the calls of authenticate, failed those that
\* returned Ok(false), last and found tell what the last call and its
\* get_employee_hash returned
LoginStart ==
  [pc |-> "loop", current_attempts |-> 0, authenticate_calls |-> 0,
   failed |-> 0, last |-> "none", found |-> "none"]

\* what authenticate returns (ret), the Authenticator's counter and the
\* read of the EmployeeHandler it leaves; n is self.current_attempts
AuthResult(ret, n, r) == [ret |-> ret, current_attempts |-> n, read |-> r]

\* authenticate that counts an attempt only once the hash lookup returned
authenticate_counts_after_lookup(n, hashes, employees, d, employee_id, password, ok) ==
  LET r == get_employee_hash_result(hashes, employees, d, employee_id, ok)
  IN  IF n >= max_attempts
      THEN AuthResult("exit", n,
                      ReadResult(ProcessExit, <<>>, hashes, employees))
      ELSE IF r.result.kind # "Ok"
      THEN AuthResult("err", n, r)
      ELSE IF r.result.value.some
      THEN AuthResult(IF verify_encoded(r.result.value.val, password)
                      THEN "true" ELSE "false", n + 1, r)
      ELSE AuthResult("false", n + 1, r)

\* Authenticator::authenticate
authenticate(n, hashes, employees, d, employee_id, password, ok) ==
  LET r == get_employee_hash_result(hashes, employees, d, employee_id, ok)
  IN  IF n >= max_attempts
      THEN AuthResult("exit", n,
                      ReadResult(ProcessExit, <<>>, hashes, employees))
      ELSE IF r.result.kind # "Ok"
      THEN AuthResult("err", n + 1, r)
      ELSE IF r.result.value.some
      THEN AuthResult(IF verify_encoded(r.result.value.val, password)
                      THEN "true" ELSE "false", n + 1, r)
      ELSE AuthResult("false", n + 1, r)

\* what get_employee_hash gave the call of authenticate
HashLookup(a) ==
  CASE a.ret = "exit" -> "none"
    [] a.read.result.kind # "Ok" -> "error"
    [] a.read.result.value.some -> "some"
    [] OTHER -> "absent"

\* the match of login_handler that gives up one failed attempt late
login_handler_match_late(a) ==
  CASE a.ret = "exit" -> [pc |-> "exited", result |-> ProcessExit]
    [] a.ret = "err" -> [pc |-> "returned", result |-> a.read.result]
    [] a.ret = "true" -> [pc |-> "returned", result |-> Value(TRUE)]
    [] a.ret = "false" ->
         IF a.current_attempts > max_attempts
         THEN [pc |-> "returned", result |-> Value(FALSE)]
         ELSE [pc |-> "loop", result |-> Running]

\* match authenticator.authenticate(..)? { true => return Ok(true),
\* false => if current_attempts >= max_attempts { return Ok(false) } }
login_handler_match(a) ==
  CASE a.ret = "exit" -> [pc |-> "exited", result |-> ProcessExit]
    [] a.ret = "err" -> [pc |-> "returned", result |-> a.read.result]
    [] a.ret = "true" -> [pc |-> "returned", result |-> Value(TRUE)]
    [] a.ret = "false" ->
         IF a.current_attempts >= max_attempts
         THEN [pc |-> "returned", result |-> Value(FALSE)]
         ELSE [pc |-> "loop", result |-> Running]

LoginFrame ==
  UNCHANGED <<clientLocal, db, work, transaction, pc, op, old_employee_id,
              pre, nops, budget>>

\* get_integer_input()? or get_string_input()? fails: the error propagates
login_handler_input_error ==
  /\ menu.pc = "loop"
  /\ menu' = [menu EXCEPT !.pc = "returned"]
  /\ result' = InputError
  /\ UNCHANGED <<employeeLocal, arg, calls>>
  /\ LoginFrame

\* one iteration of the loop of login_handler
login_handler_loop ==
  /\ menu.pc = "loop"
  /\ \E employee_id \in LoginIds, password \in Passwords, ok \in BOOLEAN :
       LET a == authenticate(menu.current_attempts, stored_hashes,
                             stored_employees, db, employee_id, password, ok)
           m == login_handler_match(a)
       IN  /\ arg' = [employee_id |-> employee_id, password |-> password]
           /\ calls' = a.read.calls
           /\ stored_hashes' = a.read.hashes
           /\ stored_employees' = a.read.employees
           /\ result' = m.result
           /\ menu' = [pc |-> m.pc,
                       current_attempts |-> a.current_attempts,
                       authenticate_calls |-> menu.authenticate_calls + 1,
                       failed |-> menu.failed + (IF a.ret = "false" THEN 1 ELSE 0),
                       last |-> a.ret,
                       found |-> HashLookup(a)]
  /\ LoginFrame

InitLogin ==
  /\ db \in InitialStores
  /\ work = db
  /\ local_avl_tree = Nil
  /\ employee_client_pairs = EmptyMap
  /\ stored_hashes = EmptyMap
  /\ stored_employees = EmptyMap
  /\ transaction = NoTransaction
  /\ pc = "idle"
  /\ op = "none"
  /\ arg = 0
  /\ old_employee_id = 0
  /\ result = Running
  /\ calls = <<>>
  /\ pre = Snapshot
  /\ nops = 0
  /\ budget = 0
  /\ menu = LoginStart

NextLogin ==
  \/ login_handler_input_error
  \/ login_handler_loop

SpecLogin == InitLogin /\ [][NextLogin]_vars

(***************************************************************************)
(* C35 .. C36 : login_handler                                              *)
(***************************************************************************)
LoginReturned(r) == menu.pc = "returned" /\ result = r

\* C35: login_handler returns Ok(true) at the first attempt that
\* authenticates and Ok(false) once max_attempts attempts have failed; it
\* calls authenticate at most max_attempts times; current_attempts has grown
\* by exactly one with every call of authenticate and never exceeds
\* max_attempts.
C35_LoginAttempts ==
  /\ menu.last = "true" <=> LoginReturned(Value(TRUE))
  /\ LoginReturned(Value(TRUE)) => menu.failed = menu.authenticate_calls - 1
  /\ menu.failed >= max_attempts <=> LoginReturned(Value(FALSE))
  /\ menu.authenticate_calls <= max_attempts
  /\ menu.current_attempts = menu.authenticate_calls
  /\ menu.current_attempts <= max_attempts

\* the fifth attempt failed and login_handler returned Ok(false)
C35_Witness ==
  /\ LoginReturned(Value(FALSE))
  /\ menu.authenticate_calls = max_attempts
  /\ menu.current_attempts = max_attempts

\* C36: under login_handler authenticate is never entered with
\* current_attempts >= max_attempts, so its process-exit branch is not
\* taken; an attempt for an id that has no stored hash is counted and
\* returns Ok(false).
C36_ExitUnreachable ==
  /\ menu.pc # "exited"
  /\ menu.last # "exit"
  /\ menu.found = "absent" => menu.last = "false"
  /\ menu.found = "absent" => menu.failed = menu.current_attempts

\* max_attempts attempts for ids without a stored hash: every one was
\* counted as failed and login_handler returned Ok(false)
C36_Witness ==
  /\ LoginReturned(Value(FALSE))
  /\ menu.found = "absent"
  /\ stored_hashes = EmptyMap
  /\ menu.failed = max_attempts

(***************************************************************************)
(* Menu::run : the loop that reads a choice and calls the handlers         *)
(***************************************************************************)
\* the handler operations a run of the Menu may start
MaxRunCalls == 3

\* what get_integer_input can give for the menu choice
MenuChoices == -1..5

\* convert_i32 with a last arm that exits : _ => Some(ExitProgram)
convert_i32_defaults_to_exit(value) ==
  CASE value = -1 -> "DefaultMenuValue"
    [] value = 1 -> "PrintClientList"
    [] value = 2 -> "ChangeServiceChoice"
    [] value = 3 -> "ChangeClientEmployeePair"
    [] OTHER -> "ExitProgram"

\* MainMenuChoice::convert_i32 ; "None" is Option::None
MainMenuChoice_convert_i32(value) ==
  CASE value = -1 -> "DefaultMenuValue"
    [] value = 1 -> "PrintClientList"
    [] value = 2 -> "ChangeServiceChoice"
    [] value = 3 -> "ChangeClientEmployeePair"
    [] value = 4 -> "ExitProgram"
    [] OTHER -> "None"

\* Menu::run at the top of its loop; choice is the choice entered last
RunLoop(c) == [pc |-> "run", choice |-> c, returned |-> "none"]
\* Menu::run has returned r after the choice c
RunReturned(c, r) == [pc |-> "run_returned", choice |-> c, returned |-> r]
\* display_clients_handler has been chosen
DisplayStart == [pc |-> "display", returned |-> "none"]

\* where the match of Menu::run goes for the choice entered, over store d
Menu_run_match(menu_choice, d) ==
  LET c == MainMenuChoice_convert_i32(menu_choice)
  IN  CASE c = "PrintClientList" -> DisplayStart
        [] c = "ChangeServiceChoice" -> ServiceStart(d)
        [] c = "ChangeClientEmployeePair" -> MenuStart(d)
        [] c = "ExitProgram" -> RunReturned(menu_choice, "Ok")
        [] OTHER -> RunLoop(menu_choice)

\* let menu_choice = get_integer_input()?; fails
Menu_run_input_error ==
  /\ menu.pc = "run"
  /\ menu' = RunReturned(menu.choice, "Err")
  /\ UNCHANGED handlers

\* let menu_choice = get_integer_input()?; match convert_i32(menu_choice)
Menu_run_choice ==
  /\ menu.pc = "run"
  /\ \E menu_choice \in MenuChoices : menu' = Menu_run_match(menu_choice, db)
  /\ UNCHANGED handlers

\* display_clients_handler / display_clients : the get_client calls of
\* its for loop read the tree and change nothing
display_clients_handler ==
  /\ menu.pc = "display"
  /\ \/ /\ menu' = [menu EXCEPT !.pc = "done", !.returned = "Err"]
        /\ UNCHANGED handlers
     \/ \E employee_id \in GroupKeys :
          /\ Enter("get_clients_for_employee", employee_id)
          /\ ClientRead(Value(get_clients_for_employee(employee_id)))
          /\ menu' = [menu EXCEPT !.pc = "done", !.returned = "Ok"]

\* if let Err(e) = handler { println!(..) } : the loop goes on
Menu_run_continue ==
  /\ menu.pc = "done"
  /\ menu' = RunLoop(0)
  /\ UNCHANGED handlers

\* Menu::new over the store, Menu::run entered
InitRun ==
  /\ db \in InitialStores
  /\ work = db
  /\ local_avl_tree = ClientHandlerNew(db).tree
  /\ employee_client_pairs = ClientHandlerNew(db).pairs
  /\ stored_hashes = EmptyMap
  /\ stored_employees = EmptyMap
  /\ transaction = NoTransaction
  /\ pc = "idle"
  /\ op = "none"
  /\ arg = 0
  /\ old_employee_id = 0
  /\ result = Ok
  /\ calls = <<>>
  /\ pre = Snapshot
  /\ nops = 0
  /\ budget = MaxRunCalls
  /\ menu = RunLoop(0)

NextRun ==
  \/ Menu_run_input_error
  \/ Menu_run_choice
  \/ display_clients_handler
  \/ customer_choice_handler_get_client
  \/ select_valid_service
  \/ customer_choice_handler_update
  \/ customer_choice_handler_return
  \/ client_pairing_handler_get_client
  \/ get_new_pair_employee_id
  \/ client_pairing_handler_update
  \/ client_pairing_handler_return
  \/ update_client_steps
  \/ Menu_run_continue

SpecRun == InitRun /\ [][NextRun]_vars

(***************************************************************************)
(* C37 : Menu::run                                                         *)
(***************************************************************************)
\* C37: Menu::run returns Ok only after a choice that converts to
\* ExitProgram, which is 4; when a handler has returned an error the loop goes on; a
\* choice that is not recognised, -1 included, leaves the loop at its top
\* with no handler operation started and no store call issued.
C37_RunLeavesOnlyOnExit ==
  /\ []((menu.pc = "run_returned" /\ menu.returned = "Ok") =>
          menu.choice = 4)
  /\ [][(menu.pc = "done" /\ menu.returned = "Err") => menu'.pc = "run"]_vars
  /\ [][(menu.pc = "run" /\ menu'.pc = "run") =>
          /\ menu'.choice \notin 1..4
          /\ UNCHANGED handlers]_vars

\* the run has called a handler operation and was then left by choice 4
C37_Witness ==
  /\ menu = RunReturned(4, "Ok")
  /\ nops > 0

(***************************************************************************)
(* initial_employee_setup (main.rs).  The workflow variable menu holds     *)
(* its locals; calls collects every store call of the one run.             *)
(***************************************************************************)
\* the longest employees vector the function is run with (the vector of
\* the source has every entry commented out)
MaxSetupEmployees == 2

\* one (e_name, e_password) entry of the employees vector
SetupEntries == [name : EmployeeNames, password : Passwords]

RECURSIVE SeqsUpTo(_, _)
\* the sequences over S of length at most n
SeqsUpTo(S, n) ==
  IF n = 0 THEN {<<>>}
  ELSE LET shorter == SeqsUpTo(S, n - 1)
       IN  shorter \cup {Append(q, x) : q \in {r \in shorter : Len(r) = n - 1},
                                        x \in S}

SetupVectors == SeqsUpTo(SetupEntries, MaxSetupEmployees)

\* the ids the store can assign to the employees added
SetupIds == 1..(MaxEmployeeId + MaxSetupEmployees)

\* Employee::new(0, e_name, e_password) : the password is hashed
Employee_new(entry) ==
  [employee_id |-> 0, employee_name |-> entry.name,
   hashed_password |-> Encoded[entry.password]]

\* initial_employee_setup is entered over store d with the vector v;
\* hash tells what get_employee_hash(1) gave, inner is the result of the
\* closure, duplicates and errors count the additions that were skipped as
\* duplicates and those that ended the closure with an error
SetupStart(d, v) ==
  [pc |-> "check", store |-> d, employees |-> v, hash |-> "none",
   inner |-> "none", duplicates |-> 0, errors |-> 0]

\* what Employee::new and database.new_employee can give for one entry
AdditionOutcomes == {"Ok", "duplicate", "QueryError", "PasswordHashError"}

\* a match that treats a duplicate as any other error
setup_match_duplicate_fails(outcome) ==
  CASE outcome = "Ok" -> "next"
    [] OTHER -> "return_err"

\* let employee = Employee::new(..)?; match database.new_employee(&employee)
\* { Ok(_) => .., Err(QueryError(e)) if e.contains("duplicate") => continue,
\*   Err(e) => return Err(..) }
setup_match(outcome) ==
  CASE outcome = "Ok" -> "next"
    [] outcome = "duplicate" -> "continue"
    [] OTHER -> "return_err"

SetupFrame ==
  UNCHANGED <<clientLocal, employeeLocal, transaction, pc, op, arg,
              old_employee_id, pre, nops, budget>>

\* if let Ok(Some(_)) = database.get_employee_hash(1) { return Ok(()) }
setup_check ==
  /\ menu.pc = "check"
  /\ \E ok \in BOOLEAN :
       LET found == IF ~ok THEN "error"
                    ELSE IF 1 \in DOMAIN db.employees THEN "some" ELSE "absent"
       IN  /\ calls' = <<Call("get_employee_hash", ok)>>
           /\ menu' = [menu EXCEPT !.hash = found,
                         !.pc = IF found = "some" THEN "setup_returned"
                                ELSE "begin"]
           /\ result' = IF found = "some" THEN Ok ELSE Running
  /\ UNCHANGED <<db, work>>
  /\ SetupFrame

\* database.begin_transaction()?;
setup_begin ==
  /\ menu.pc = "begin"
  /\ \E ok \in BOOLEAN :
       /\ calls' = Append(calls, Call("begin_transaction", ok))
       /\ work' = db
       /\ menu' = [menu EXCEPT !.pc = IF ok THEN "for" ELSE "setup_returned"]
       /\ result' = IF ok THEN Running ELSE StoreError("begin_transaction")
  /\ UNCHANGED db
  /\ SetupFrame

\* one iteration of for (e_name, e_password) in employees
setup_for ==
  /\ menu.pc = "for"
  /\ menu.employees # <<>>
  /\ \E outcome \in AdditionOutcomes, id \in SetupIds :
       LET employee == Employee_new(Head(menu.employees))
           m == setup_match(outcome)
       IN  /\ outcome = "Ok" => id \in FreshIds(work.employees, SetupIds)
           /\ outcome # "Ok" => id = 1
           /\ calls' = IF outcome = "PasswordHashError" THEN calls
                       ELSE Append(calls, Call("new_employee", outcome = "Ok"))
           /\ work' = IF outcome = "Ok" THEN DbNewEmployee(work, employee, id)
                      ELSE work
           /\ menu' = [menu EXCEPT
                         !.employees = Tail(@),
                         !.pc = IF m = "return_err" THEN "finalize" ELSE "for",
                         !.inner = IF m = "return_err" THEN "Err" ELSE @,
                         !.duplicates = IF m = "continue" THEN @ + 1 ELSE @,
                         !.errors = IF outcome \in {"QueryError", "PasswordHashError"}
                                    THEN @ + 1 ELSE @]
  /\ UNCHANGED <<db, result>>
  /\ SetupFrame

\* the vector is exhausted: the closure returns Ok(())
setup_for_done ==
  /\ menu.pc = "for"
  /\ menu.employees = <<>>
  /\ menu' = [menu EXCEPT !.pc = "finalize", !.inner = "Ok"]
  /\ UNCHANGED <<db, work, calls, result>>
  /\ SetupFrame

\* if result.is_err() { database.rollback_transaction()?; }
\* else { database.commit_transaction()?; } result
setup_finalize ==
  /\ menu.pc = "finalize"
  /\ \E ok \in BOOLEAN :
       IF menu.inner = "Err"
       THEN /\ calls' = Append(calls, Call("rollback_transaction", ok))
            /\ work' = db
            /\ db' = db
            /\ result' = IF ok THEN LocalError("ApplicationError")
                         ELSE StoreError("rollback_transaction")
       ELSE /\ calls' = Append(calls, Call("commit_transaction", ok))
            /\ work' = work
            /\ db' = IF ok THEN work ELSE db
            /\ result' = IF ok THEN Ok ELSE StoreError("commit_transaction")
  /\ menu' = [menu EXCEPT !.pc = "setup_returned"]
  /\ SetupFrame

InitSetup ==
  /\ db \in InitialStores
  /\ work = db
  /\ local_avl_tree = Nil
  /\ employee_client_pairs = EmptyMap
  /\ stored_hashes = EmptyMap
  /\ stored_employees = EmptyMap
  /\ transaction = NoTransaction
  /\ pc = "idle"
  /\ op = "none"
  /\ arg = 0
  /\ old_employee_id = 0
  /\ result = Running
  /\ calls = <<>>
  /\ pre = Snapshot
  /\ nops = 0
  /\ budget = 0
  /\ \E v \in SetupVectors : menu = SetupStart(db, v)

NextSetup ==
  \/ setup_check
  \/ setup_begin
  \/ setup_for
  \/ setup_for_done
  \/ setup_finalize

SpecSetup == InitSetup /\ [][NextSetup]_vars

(***************************************************************************)
(* C38 : initial_employee_setup                                            *)
(***************************************************************************)
SetupReturned == menu.pc = "setup_returned"

Finalizations == Count("commit_transaction") + Count("rollback_transaction")

\* the run returned at once: it issued the hash lookup and nothing else
ReturnedAtOnce ==
  /\ result = Ok
  /\ calls = <<Call("get_employee_hash", TRUE)>>

=============================================================================
